---- MODULE Spec2Model ----
(***************************************************************************)
(* Model of the MediTalks backend: the message validator, the two          *)
(* adaptation providers (SEA-Lion client, Gemini adapter) with their       *)
(* static fallback templates, and the /api/cultural-adaptation/generate    *)
(* route that chains them; the file validator, the PDF extractor with its  *)
(* two methods, the summarizer with its fallbacks, and the                 *)
(* /api/extract-pdf route; the parsers of provider output of the PDF       *)
(* service, and the /api/health route.                                     *)
(*                                                                         *)
(* Strings.  A Python str is modelled as a sequence of runs <<c, n>>:      *)
(* the symbol c repeated n >= 1 times.  A symbol is one character, or an   *)
(* indivisible word that stands for its characters (a context id, a        *)
(* template phrase, a provider's answer).  Adjacent runs carry different   *)
(* symbols, so two strings are equal exactly when their runs are.          *)
(***************************************************************************)
EXTENDS Integers, Sequences, FiniteSets, TLC

VARIABLES
    env,        \* what the process found at startup (keys, test call, SDK)
    available,  \* SEALionService.available
    model,      \* CulturalAdaptationService.model is set (not None)
    summarizer, \* TextSummarizationService.model: a model name, or "None"
    pdf_model,  \* PDFProcessingService.model is set (not None)
    op,         \* the operation that ran last
    arg,        \* its argument (a request body, or a message)
    reply,      \* the provider's answer, when the operation asked for one
    result,     \* what the operation returned
    events      \* the steps the operation took, in order

vars == <<env, available, model, summarizer, pdf_model, op, arg, reply, result, events>>

-----------------------------------------------------------------------------
(* Bounds of the model *)

\* longest run of surrounding whitespace put around a message
MaxPad == 2
\* how far the message lengths tried lie from each length limit
Slack == 1

-----------------------------------------------------------------------------
(* Strings *)

Whitespace == {" ", "\n", "\t"}

UpperCase ==
    {"A","B","C","D","E","F","G","H","I","J","K","L","M",
     "N","O","P","Q","R","S","T","U","V","W","X","Y","Z"}

LowerCase ==
    {"a","b","c","d","e","f","g","h","i","j","k","l","m",
     "n","o","p","q","r","s","t","u","v","w","x","y","z"}

Digits == {"0","1","2","3","4","5","6","7","8","9"}

\* the characters the regular expression class \w matches
WordChars == UpperCase \cup LowerCase \cup Digits \cup {"_"}

LowerOf ==
    [A |-> "a", B |-> "b", C |-> "c", D |-> "d", E |-> "e", F |-> "f",
     G |-> "g", H |-> "h", I |-> "i", J |-> "j", K |-> "k", L |-> "l",
     M |-> "m", N |-> "n", O |-> "o", P |-> "p", Q |-> "q", R |-> "r",
     S |-> "s", T |-> "t", U |-> "u", V |-> "v", W |-> "w", X |-> "x",
     Y |-> "y", Z |-> "z"]

\* one symbol, once
Sym(c) == <<c, 1>>

\* the string of the characters cs, each once
Chars(cs) == [i \in 1..Len(cs) |-> Sym(cs[i])]

\* the string that is the single word w
Word(w) == <<Sym(w)>>

\* the string of n copies of c
Rep(c, n) == IF n = 0 THEN <<>> ELSE <<(<<c, n>>)>>

\* s + t, joining the runs that meet when they carry the same symbol
Concat(s, t) ==
    IF s = <<>> THEN t
    ELSE IF t = <<>> THEN s
    ELSE IF s[Len(s)][1] = t[1][1]
         THEN SubSeq(s, 1, Len(s) - 1)
              \o <<(<<t[1][1], s[Len(s)][2] + t[1][2]>>)>>
              \o Tail(t)
         ELSE s \o t

RECURSIVE StrLen(_)
\* len(s)
StrLen(s) == IF s = <<>> THEN 0 ELSE Head(s)[2] + StrLen(Tail(s))

IsSpace(r) == r[1] \in Whitespace

RECURSIVE LStrip(_)
LStrip(s) ==
    IF s = <<>> THEN <<>>
    ELSE IF IsSpace(Head(s)) THEN LStrip(Tail(s)) ELSE s

RECURSIVE RStrip(_)
RStrip(s) ==
    IF s = <<>> THEN <<>>
    ELSE IF IsSpace(s[Len(s)]) THEN RStrip(SubSeq(s, 1, Len(s) - 1)) ELSE s

\* str.strip(): leading and trailing whitespace removed
Strip(s) == RStrip(LStrip(s))

\* str.lower() on every symbol, as re.IGNORECASE compares
Fold(s) ==
    [i \in 1..Len(s) |->
        <<(IF s[i][1] \in UpperCase THEN LowerOf[s[i][1]] ELSE s[i][1]), s[i][2]>>]

-----------------------------------------------------------------------------
(* Regular expressions of ValidationService.forbidden_patterns *)

\* the literal lit (its adjacent characters differ) occupies runs i..i+Len(lit)-1
\* of s: it may end inside the first run and start inside the last one, and
\* every run between is one character long
LitAt(s, i, lit) ==
    /\ i >= 1
    /\ i + Len(lit) - 1 <= Len(s)
    /\ \A k \in 1..Len(lit) :
        /\ s[i + k - 1][1] = lit[k]
        /\ (1 < k /\ k < Len(lit)) => s[i + k - 1][2] = 1

NotNewline(r) == r[1] # "\n"
IsWord(r) == r[1] \in WordChars

\* "." repeated: every run of s[a..b] is free of line breaks
AllNotNewline(s, a, b) == \A k \in a..b : NotNewline(s[k])
\* \w repeated: every run of s[a..b] is of word characters
AllWord(s, a, b) == \A k \in a..b : IsWord(s[k])
\* \s repeated: every run of s[a..b] is of whitespace
AllSpace(s, a, b) == \A k \in a..b : IsSpace(s[k])

\* re.search(r'<script.*?>.*?</script>', s): "." matches anything but a
\* newline, so the opening tag, its ">" and the closing tag lie on one line
MatchScript(s) ==
    LET open == <<"<","s","c","r","i","p","t">>
        close == <<"<","/","s","c","r","i","p","t",">">>
    IN \E i \in 1..Len(s) :
        /\ LitAt(s, i, open)
        /\ \E g \in (i + Len(open))..Len(s) :
            /\ s[g][1] = ">"
            /\ AllNotNewline(s, i + Len(open), g - 1)
            /\ \E c \in (g + 1)..Len(s) :
                /\ AllNotNewline(s, g + 1, c - 1)
                /\ LitAt(s, c, close)

\* re.search(r'javascript:', s)
MatchJavascript(s) ==
    \E i \in 1..Len(s) :
        LitAt(s, i, <<"j","a","v","a","s","c","r","i","p","t",":">>)

\* re.search(r'on\w+\s*=', s)
MatchHandler(s) ==
    \E i \in 1..Len(s) :
        /\ LitAt(s, i, <<"o","n">>)
        /\ \E w \in (i + 1)..Len(s) :
            \* \w+ ends in run w: the rest of the "n" run, or word runs after it
            /\ AllWord(s, i + 2, w)
            /\ (w = i + 1) => s[i + 1][2] >= 2
            /\ \E e \in (w + 1)..Len(s) :
                /\ AllSpace(s, w + 1, e - 1)
                /\ s[e][1] = "="

\* forbidden_patterns: some pattern of the list is found in s as it is written
AnyPatternFound(s) ==
    MatchScript(s) \/ MatchJavascript(s) \/ MatchHandler(s)

\* variant: the search without re.IGNORECASE
MatchesForbiddenPattern_CaseSensitive(s) ==
    AnyPatternFound(s)

\* any(re.search(pattern, s, re.IGNORECASE) for pattern in forbidden_patterns)
MatchesForbiddenPattern(s) ==
    AnyPatternFound(Fold(s))

-----------------------------------------------------------------------------
(* JSON values: a string, any other JSON value, or no value at all *)

StrVal(s) == [type |-> "str", str |-> s]
NonStr == [type |-> "other", str |-> <<>>]
Absent == [type |-> "absent", str |-> <<>>]

-----------------------------------------------------------------------------
(* ValidationService *)

max_message_length == 5000
min_message_length == 10

MsgNonEmptyString == "Message must be a non-empty string"
MsgTooShort ==
    "Message must be at least " \o ToString(min_message_length)
        \o " characters long"
MsgTooLong ==
    "Message must not exceed " \o ToString(max_message_length)
        \o " characters"
MsgHarmful == "Message contains potentially harmful content"
MsgValid == "Message is valid"

Verdict(valid, message, cleaned) ==
    [valid |-> valid, message |-> message, cleaned_message |-> cleaned]

\* variant: the lower limit compared with <= instead of <
validate_message_stripped_StrictMin(message) ==
    IF StrLen(message) <= min_message_length
        THEN Verdict(FALSE, MsgTooShort, <<>>)
    ELSE IF StrLen(message) > max_message_length
        THEN Verdict(FALSE, MsgTooLong, <<>>)
    ELSE IF MatchesForbiddenPattern(message)
        THEN Verdict(FALSE, MsgHarmful, <<>>)
    ELSE Verdict(TRUE, MsgValid, message)

\* variant: the upper limit is not checked
validate_message_stripped_NoMax(message) ==
    IF StrLen(message) < min_message_length
        THEN Verdict(FALSE, MsgTooShort, <<>>)
    ELSE IF MatchesForbiddenPattern(message)
        THEN Verdict(FALSE, MsgHarmful, <<>>)
    ELSE Verdict(TRUE, MsgValid, message)

\* validate_message after message.strip(): the length limits, then the
\* forbidden patterns
validate_message_stripped(message) ==
    IF StrLen(message) < min_message_length
        THEN Verdict(FALSE, MsgTooShort, <<>>)
    ELSE IF StrLen(message) > max_message_length
        THEN Verdict(FALSE, MsgTooLong, <<>>)
    ELSE IF MatchesForbiddenPattern(message)
        THEN Verdict(FALSE, MsgHarmful, <<>>)
    ELSE Verdict(TRUE, MsgValid, message)

\* ValidationService.validate_message(message), message any value
validate_message(message) ==
    IF message.type # "str" \/ message.str = <<>>
        THEN Verdict(FALSE, MsgNonEmptyString, <<>>)
    ELSE validate_message_stripped(Strip(message.str))

-----------------------------------------------------------------------------
(* What a provider answers to one call *)

Http(status, content) == [kind |-> "http", status |-> status, content |-> content]
Raises == [kind |-> "raise", status |-> 0, content |-> NonStr]
NoReply == [kind |-> "none", status |-> 0, content |-> NonStr]

\* Optional[str]
None == [none |-> TRUE, val |-> NonStr]
Some(v) == [none |-> FALSE, val |-> v]

\* the outcome of a service method: the text returned and the steps taken,
\* or an exception that left the method
Outcome(text, steps) == [text |-> text, steps |-> steps, raised |-> FALSE]
Raised(steps) == [text |-> <<>>, steps |-> steps, raised |-> TRUE]

\* dict.get(key, {}) finds an entry: the key is one of the table's ids
InTable(table, key) == \E k \in DOMAIN table : key = Word(k)

\* f"{pre}{message}\n\n{post}"
Template(t, message) ==
    Concat(Concat(Word(t.pre), message), Concat(Rep("\n", 2), Word(t.post)))

\* adaptations.get(cultural_context, default), formatted with the message
FromTemplates(table, default, message, cultural_context) ==
    IF InTable(table, cultural_context)
        THEN Template(table[cultural_context[1][1]], message)
        ELSE Template(default, message)

-----------------------------------------------------------------------------
(* SEALionService *)

\* keys of sea_context_templates, each with its 'language'
sea_context_templates ==
    ("tagalog-rural" :> "Filipino/Tagalog")
    @@ ("thai-low-literacy" :> "Thai")
    @@ ("khmer-indigenous" :> "Khmer/Cambodian")
    @@ ("vietnamese-elderly" :> "Vietnamese")
    @@ ("malay-traditional" :> "Malay/Bahasa Melayu")

\* fallback_adaptations of SEALionService._fallback_adaptation; characters
\* outside ASCII are written uXXXX, their code point
sea_fallback_adaptations ==
    ("tagalog-rural" :>
        [pre |-> "Mahalagang payo sa kalusugan: ",
         post |-> "Pakipag-usap sa inyong doktor para sa karagdagang impormasyon."])
    @@ ("thai-low-literacy" :>
        [pre |-> "u0E04u0E33u0E41u0E19u0E30u0E19u0E33u0E2Au0E33u0E04u0E31u0E0Du0E40u0E01u0E35u0E48u0E22u0E27u0E01u0E31u0E1Au0E2Au0E38u0E02u0E20u0E32u0E1E: ",
         post |-> "u0E01u0E23u0E38u0E13u0E32u0E1Bu0E23u0E36u0E01u0E29u0E32u0E41u0E1Eu0E17u0E22u0E4Cu0E2Au0E33u0E2Bu0E23u0E31u0E1Au0E02u0E49u0E2Du0E21u0E39u0E25u0E40u0E1Eu0E34u0E48u0E21u0E40u0E15u0E34u0E21"])
    @@ ("khmer-indigenous" :>
        [pre |-> "u178Au17C6u1794u17BCu1793u17D2u1798u17B6u1793u179Fu17BBu1781u1797u17B6u1796u179Fu17C6u1781u17B6u1793u17CB: ",
         post |-> "u179Fu17BCu1798u1796u17B7u1782u17D2u179Au17C4u17C7u1787u17B6u1798u17BDu1799u1782u17D2u179Au17BCu1796u17C1u1791u17D2u1799u179Fu1798u17D2u179Au17B6u1794u17CBu1796u17D0u178Fu17CCu1798u17B6u1793u1794u1793u17D2u1790u17C2u1798"])
    @@ ("vietnamese-elderly" :>
        [pre |-> "Lu1EDDi khuyu00EAn su1EE9c khu1ECFe quan tru1ECDng: ",
         post |-> "Vui lu00F2ng tham khu1EA3o u00FD kiu1EBFn bu00E1c su0129 u0111u1EC3 biu1EBFt thu00EAm thu00F4ng tin"])
    @@ ("malay-traditional" :>
        [pre |-> "Nasihat kesihatan penting: ",
         post |-> "Sila rujuk doktor untuk maklumat lanjut"])

sea_fallback_default ==
    [pre |-> "Important health advice: ",
     post |-> "Please consult with your doctor for more information."]

\* SEALionService._fallback_adaptation(message, cultural_context)
SEALion_fallback_adaptation(message, cultural_context) ==
    FromTemplates(sea_fallback_adaptations, sea_fallback_default,
                  message, cultural_context)

\* SEALionService._make_api_request: the content of a 200 answer ("" when the
\* answer carries none), None on any other status and on any exception
SEALion_make_api_request(rep) ==
    IF rep.kind = "http" /\ rep.status = 200
        THEN Some(IF rep.content.type = "absent" THEN StrVal(<<>>) ELSE rep.content)
        ELSE None

\* SEALionService._initialize_sealion: False without a configured key; with
\* one, the test request is made and True is returned whatever it answered
SEALion_initialize_sealion(api_key, test_reply) ==
    IF api_key \in {"unset", "your_sealion_api_key_here"}
        THEN FALSE
        ELSE LET test_response == SEALion_make_api_request(test_reply)
             IN TRUE

\* variant: no try/except around the method, so .strip() on a content that
\* is no string raises to the caller
SEALion_generate_cultural_adaptation_Uncaught(is_available, message, cultural_context, rep) ==
    LET fallback == SEALion_fallback_adaptation(message, cultural_context)
    IN IF ~is_available
           THEN Outcome(fallback, <<"sealion.fallback">>)
       ELSE IF ~InTable(sea_context_templates, cultural_context)
           THEN Outcome(fallback, <<"sealion.fallback">>)
       ELSE LET response == SEALion_make_api_request(rep)
            IN IF ~response.none /\ response.val.type = "other"
                   THEN Raised(<<"sealion.request">>)
               ELSE IF /\ ~response.none
                       /\ response.val.str # <<>>
                       /\ Strip(response.val.str) # <<>>
                   THEN Outcome(Strip(response.val.str), <<"sealion.request">>)
                   ELSE Outcome(fallback, <<"sealion.request", "sealion.fallback">>)

\* SEALionService.generate_cultural_adaptation(message, cultural_context)
SEALion_generate_cultural_adaptation(is_available, message, cultural_context, rep) ==
    LET fallback == SEALion_fallback_adaptation(message, cultural_context)
    IN IF ~is_available
           THEN Outcome(fallback, <<"sealion.fallback">>)
       ELSE IF ~InTable(sea_context_templates, cultural_context)
           THEN Outcome(fallback, <<"sealion.fallback">>)
       ELSE LET response == SEALion_make_api_request(rep)
            IN IF /\ ~response.none
                  /\ response.val.type = "str"
                  /\ response.val.str # <<>>
                  /\ Strip(response.val.str) # <<>>
                   THEN Outcome(Strip(response.val.str), <<"sealion.request">>)
                   \* None, "", blank, or .strip() raising on a value that is
                   \* no string: all end in the fallback
                   ELSE Outcome(fallback, <<"sealion.request", "sealion.fallback">>)

-----------------------------------------------------------------------------
(* CulturalAdaptationService (Gemini) *)

\* keys of context_templates, each with its 'language'
context_templates ==
    ("tagalog-rural" :> "Tagalog/Filipino")
    @@ ("thai-low-literacy" :> "Thai")
    @@ ("khmer-indigenous" :> "Khmer/Cambodian")
    @@ ("vietnamese-elderly" :> "Vietnamese")
    @@ ("malay-traditional" :> "Malay/Bahasa Melayu")

\* adaptations of CulturalAdaptationService._fallback_adaptation
adaptations ==
    ("tagalog-rural" :>
        [pre |-> "Mahalagang paalala tungkol sa inyong kalusugan: ",
         post |-> "Pakisuyo, kumonsulta sa inyong doktor."])
    @@ ("thai-low-literacy" :>
        [pre |-> "u0E04u0E33u0E41u0E19u0E30u0E19u0E33u0E2Au0E33u0E04u0E31u0E0Du0E40u0E01u0E35u0E48u0E22u0E27u0E01u0E31u0E1Au0E2Au0E38u0E02u0E20u0E32u0E1E: ",
         post |-> "u0E42u0E1Bu0E23u0E14u0E1Bu0E23u0E36u0E01u0E29u0E32u0E41u0E1Eu0E17u0E22u0E4C"])
    @@ ("khmer-indigenous" :>
        [pre |-> "u1780u17B6u179Au178Eu17C2u1793u17B6u17C6u179Fu17C6u1781u17B6u1793u17CBu17A2u17C6u1796u17B8u179Fu17BBu1781u1797u17B6u1796: ",
         post |-> "u179Fu17BCu1798u1796u17B7u1782u17D2u179Au17C4u17C7u1787u17B6u1798u17BDu1799u179Cu17C1u1787u17D2u1787u1794u178Eu17D2u178Cu17B7u178F"])
    @@ ("vietnamese-elderly" :>
        [pre |-> "Lu1EDDi khuyu00EAn quan tru1ECDng vu1EC1 su1EE9c khu1ECFe: ",
         post |-> "Xin hu00E3y tham khu1EA3o u00FD kiu1EBFn bu00E1c su0129"])
    @@ ("malay-traditional" :>
        [pre |-> "Nasihat penting mengenai kesihatan: ",
         post |-> "Sila rujuk doktor"])

adaptations_default ==
    [pre |-> "Important health advice: ",
     post |-> "Please consult with your doctor."]

\* variant: the templates of the SEA-Lion client in place of the adapter's own
Gemini_fallback_adaptation_SeaTemplates(message, cultural_context) ==
    FromTemplates(sea_fallback_adaptations, sea_fallback_default,
                  message, cultural_context)

\* CulturalAdaptationService._fallback_adaptation(message, cultural_context)
Gemini_fallback_adaptation(message, cultural_context) ==
    FromTemplates(adaptations, adaptations_default, message, cultural_context)

\* CulturalAdaptationService._initialize_gemini: the model is set when the key
\* is there and neither genai.configure nor GenerativeModel raises
Gemini_initialize_gemini(has_api_key, sdk_raises) ==
    has_api_key /\ ~sdk_raises

\* variant: the check for an unknown context is left out, so the provider is
\* asked with empty context information
Gemini_generate_adaptation_NoContextCheck(has_model, message, cultural_context, rep) ==
    LET fallback == Gemini_fallback_adaptation(message, cultural_context)
    IN IF ~has_model
           THEN Outcome(fallback, <<"gemini.fallback">>)
       ELSE IF rep.kind = "http" /\ rep.status = 200 /\ rep.content.type = "str"
                /\ rep.content.str # <<>>
           THEN Outcome(Strip(rep.content.str), <<"gemini.generate_content">>)
       ELSE Outcome(fallback, <<"gemini.generate_content", "gemini.fallback">>)

\* CulturalAdaptationService.generate_adaptation(message, cultural_context);
\* the SDK raises on an error status and when the answer holds no text
Gemini_generate_adaptation(has_model, message, cultural_context, rep) ==
    LET fallback == Gemini_fallback_adaptation(message, cultural_context)
    IN IF ~has_model
           THEN Outcome(fallback, <<"gemini.fallback">>)
       ELSE IF ~InTable(context_templates, cultural_context)
           THEN Outcome(fallback, <<"gemini.fallback">>)
       ELSE IF rep.kind = "http" /\ rep.status = 200 /\ rep.content.type = "str"
           THEN IF rep.content.str # <<>>
                    \* "if response.text:" is true of a blank text too
                    THEN Outcome(Strip(rep.content.str), <<"gemini.generate_content">>)
                    ELSE Outcome(fallback,
                                 <<"gemini.generate_content", "gemini.fallback">>)
       ELSE Outcome(fallback, <<"gemini.generate_content", "gemini.fallback">>)

-----------------------------------------------------------------------------
(* utils/error_handler.py *)

\* handle_error(error): the status and message by the exception's type, and
\* str(error) as the details
handle_error(error) ==
    LET by_type ==
            CASE error.type = "ValueError" ->
                    [message |-> "Invalid input provided", status |-> 400]
              [] error.type = "FileNotFoundError" ->
                    [message |-> "Requested file not found", status |-> 404]
              [] error.type = "PermissionError" ->
                    [message |-> "Permission denied", status |-> 403]
              [] error.type = "ConnectionError" ->
                    [message |-> "External service connection failed", status |-> 503]
              [] OTHER ->
                    [message |-> "Internal server error", status |-> 500]
    IN [status |-> by_type.status,
        success |-> FALSE,
        error_message |-> by_type.message,
        error_details |-> error.text,
        adaptedMessage |-> <<>>,
        originalMessage |-> <<>>,
        culturalContext |-> <<>>]

\* the exceptions the route can raise before it reaches the services
NoGetOnBody ==
    [type |-> "AttributeError", text |-> "object has no attribute 'get'"]
NoStripOnField ==
    [type |-> "AttributeError", text |-> "object has no attribute 'strip'"]
\* an exception that leaves a service method
ServiceError ==
    [type |-> "Exception", text |-> "error raised by the adaptation service"]

-----------------------------------------------------------------------------
(* app.py: POST /api/cultural-adaptation/generate *)

\* jsonify({'success': False, 'error': {'message': message}}), 400
BadRequest(message) ==
    [status |-> 400,
     success |-> FALSE,
     error_message |-> message,
     error_details |-> "",
     adaptedMessage |-> <<>>,
     originalMessage |-> <<>>,
     culturalContext |-> <<>>]

\* jsonify({'success': True, 'data': {...}}), 200
Adapted(adapted_message, message, context) ==
    [status |-> 200,
     success |-> TRUE,
     error_message |-> "",
     error_details |-> "",
     adaptedMessage |-> adapted_message,
     originalMessage |-> message,
     culturalContext |-> context]

\* what the request handler did: its response and its steps
Handled(response, steps) == [response |-> response, steps |-> steps]

\* data.get(key, '')
Get(field) == IF field.type = "absent" THEN StrVal(<<>>) ELSE field

\* variant: the Gemini adapter preferred whenever its model is set
Adapt_GeminiFirst(sea_available, gemini_model, message, context, rep) ==
    IF gemini_model
        THEN Gemini_generate_adaptation(gemini_model, message, context, rep)
        ELSE SEALion_generate_cultural_adaptation(sea_available, message, context, rep)

\* variant: when SEA-Lion ends in its fallback the Gemini adapter is tried too
Adapt_Chained(sea_available, gemini_model, message, context, rep) ==
    IF sea_available
        THEN LET first == SEALion_generate_cultural_adaptation(
                              sea_available, message, context, rep)
                 second == Gemini_generate_adaptation(gemini_model, message, context, rep)
             IN IF first.steps[Len(first.steps)] = "sealion.fallback"
                    THEN Outcome(second.text, first.steps \o second.steps)
                    ELSE first
        ELSE Gemini_generate_adaptation(gemini_model, message, context, rep)

\* the provider chosen for the adaptation: SEA-Lion when it is available,
\* the Gemini adapter otherwise
Adapt(sea_available, gemini_model, message, context, rep) ==
    IF sea_available
        THEN SEALion_generate_cultural_adaptation(sea_available, message, context, rep)
        ELSE Gemini_generate_adaptation(gemini_model, message, context, rep)

\* the part of the handler after the fields are stripped
AdaptStripped(sea_available, gemini_model, message, context, rep) ==
    IF message = <<>>
        THEN Handled(BadRequest("Message is required"), <<>>)
    ELSE IF context = <<>>
        THEN Handled(BadRequest("Cultural context is required"), <<>>)
    ELSE LET validation_result == validate_message(StrVal(message))
         IN IF ~validation_result.valid
                THEN Handled(BadRequest(validation_result.message),
                             <<"validate_message">>)
                ELSE LET a == Adapt(sea_available, gemini_model, message, context, rep)
                     IN IF a.raised
                            \* except Exception as e: return handle_error(e)
                            THEN Handled(handle_error(ServiceError),
                                         <<"validate_message">> \o a.steps)
                            ELSE Handled(Adapted(a.text, message, context),
                                         <<"validate_message">> \o a.steps)

\* generate_adaptation(): the whole handler on the parsed body
generate_adaptation(sea_available, gemini_model, data, rep) ==
    IF data.kind \in {"none", "empty"}
        THEN Handled(BadRequest("No JSON data provided"), <<>>)
    ELSE IF data.kind # "object"
        THEN Handled(handle_error(NoGetOnBody), <<>>)
    ELSE IF Get(data.message).type # "str" \/ Get(data.context).type # "str"
        THEN Handled(handle_error(NoStripOnField), <<>>)
    ELSE AdaptStripped(sea_available, gemini_model,
                       Strip(Get(data.message).str),
                       Strip(Get(data.context).str), rep)

-----------------------------------------------------------------------------
(* Strings of documents *)

\* the least and the greatest number of a non-empty set of numbers
Least(S) == CHOOSE x \in S : \A y \in S : x <= y
Greatest(S) == CHOOSE x \in S : \A y \in S : x >= y

RECURSIVE Merge(_)
\* the same characters with adjacent runs of one symbol joined
Merge(s) == IF s = <<>> THEN <<>> ELSE Concat(<<Head(s)>>, Merge(Tail(s)))

RECURSIVE Take(_, _)
\* s[:n]
Take(s, n) ==
    IF s = <<>> \/ n <= 0 THEN <<>>
    ELSE IF Head(s)[2] >= n THEN <<(<<Head(s)[1], n>>)>>
    ELSE <<Head(s)>> \o Take(Tail(s), n - Head(s)[2])

\* seq[:n] of a list
First(seq, n) == SubSeq(seq, 1, IF Len(seq) < n THEN Len(seq) ELSE n)

\* len(s.split()): the stretches of s free of whitespace
WordCount(s) ==
    Cardinality({i \in 1..Len(s) : ~IsSpace(s[i]) /\ (i = 1 \/ IsSpace(s[i - 1]))})

RECURSIVE SplitAt(_, _, _, _)
\* s.split(sep) from inside: the pieces closed so far and the open piece
SplitAt(s, sep, current, done) ==
    IF s = <<>> THEN Append(done, current)
    ELSE IF Head(s)[1] = sep
        THEN SplitAt(IF Head(s)[2] = 1
                         THEN Tail(s)
                         ELSE <<(<<sep, Head(s)[2] - 1>>)>> \o Tail(s),
                     sep, <<>>, Append(done, current))
        ELSE SplitAt(Tail(s), sep, Append(current, Head(s)), done)

\* s.split(sep) for a one-character separator
Split(s, sep) == SplitAt(s, sep, <<>>, <<>>)

RECURSIVE Join(_, _)
\* sep.join(pieces)
Join(pieces, sep) ==
    IF pieces = <<>> THEN <<>>
    ELSE IF Len(pieces) = 1 THEN pieces[1]
    ELSE Concat(pieces[1], Concat(sep, Join(Tail(pieces), sep)))

\* s.endswith(lit), for a literal of two or more characters, adjacent ones
\* different
EndsWith(s, lit) ==
    /\ Len(s) >= Len(lit)
    /\ LitAt(s, Len(s) - Len(lit) + 1, lit)
    /\ s[Len(s)][2] = 1

\* lit occurs in s
Contains(s, lit) == \E i \in 1..Len(s) : LitAt(s, i, lit)

-----------------------------------------------------------------------------
(* ValidationService.validate_file_upload *)

max_size_mb == 10

\* an uploaded file: its name, its declared size (0 when none is declared),
\* whether each library can open it, its pages as each library reads them,
\* and what langdetect makes of its text
Upload(filename, content_length, opens, pages, detected) ==
    [filename |-> filename, content_length |-> content_length,
     opens |-> opens, pages |-> pages, detected |-> detected]

FileVerdict(valid, message) == [valid |-> valid, message |-> message]

\* validate_file_upload(file): a FileStorage without a name is falsy
validate_file_upload(file) ==
    IF file.filename = <<>>
        THEN FileVerdict(FALSE, "No file provided")
    ELSE IF ~EndsWith(Fold(file.filename), <<".", "p", "d", "f">>)
        THEN FileVerdict(FALSE, "Invalid file type. Allowed extensions: .pdf")
    ELSE IF file.content_length # 0
            /\ file.content_length > max_size_mb * 1024 * 1024
        THEN FileVerdict(FALSE, "File size exceeds 10MB limit")
    ELSE FileVerdict(TRUE, "File is valid")

-----------------------------------------------------------------------------
(* PDFProcessingService: extraction *)

\* PDFProcessingService._initialize_gemini(): the model is set when there
\* is a key and the SDK raises nothing
PDF_initialize_gemini(has_api_key, sdk_raises) ==
    has_api_key /\ ~sdk_raises

\* page.extract_text(): a text (empty when the page has none), or an exception
PageText(s) == [kind |-> "text", str |-> s]
PageRaises == [kind |-> "raises", str |-> <<>>]

\* a page as pdfplumber and as PyPDF2 read it
Page(plumber, pypdf2) == [plumber |-> plumber, pypdf2 |-> pypdf2]

\* what an extraction method gives: the text, and the pages it read
Extracted(text_content, read) ==
    [text |-> Join(text_content, Rep("\n", 1)), read |-> read]

\* the last page index pdfplumber reads before it breaks off
plumber_last_page == 9
\* the number of pages PyPDF2 reads at most
max_pages == 10
\* the least length of a usable extracted text
min_text_length == 10

RECURSIVE PlumberPages(_, _, _, _)
\* the loop of _extract_with_pdfplumber from page_num on: an exception on a
\* page continues with the next one, past the check of the page limit
PlumberPages(pages, page_num, text_content, read) ==
    IF page_num >= Len(pages) THEN Extracted(text_content, read)
    ELSE LET page == pages[page_num + 1].plumber
             now == Append(read, page_num)
         IN IF page.kind = "raises"
                THEN PlumberPages(pages, page_num + 1, text_content, now)
            ELSE LET kept == IF page.str # <<>>
                                 THEN Append(text_content, page.str)
                                 ELSE text_content
                 IN IF page_num >= plumber_last_page
                        THEN Extracted(kept, now)
                        ELSE PlumberPages(pages, page_num + 1, kept, now)

\* PDFProcessingService._extract_with_pdfplumber(file): "" when the file
\* cannot be opened
PDF_extract_with_pdfplumber(file) ==
    IF ~file.opens.plumber
        THEN Extracted(<<>>, <<>>)
        ELSE PlumberPages(file.pages, 0, <<>>, <<>>)

RECURSIVE PyPdf2Pages(_, _, _, _, _)
\* the loop of _extract_with_pypdf2 over range(limit) from page_num on
PyPdf2Pages(pages, limit, page_num, text_content, read) ==
    IF page_num >= limit THEN Extracted(text_content, read)
    ELSE LET page == pages[page_num + 1].pypdf2
             now == Append(read, page_num)
         IN IF page.kind = "text" /\ page.str # <<>>
                THEN PyPdf2Pages(pages, limit, page_num + 1,
                                 Append(text_content, page.str), now)
                ELSE PyPdf2Pages(pages, limit, page_num + 1, text_content, now)

\* PDFProcessingService._extract_with_pypdf2(file)
PDF_extract_with_pypdf2(file) ==
    IF ~file.opens.pypdf2
        THEN Extracted(<<>>, <<>>)
        ELSE PyPdf2Pages(file.pages,
                         IF Len(file.pages) < max_pages THEN Len(file.pages) ELSE max_pages,
                         0, <<>>, <<>>)

language_map ==
    ("en" :> "English") @@ ("th" :> "Thai") @@ ("vi" :> "Vietnamese")
        @@ ("ms" :> "Malay") @@ ("km" :> "Khmer") @@ ("tl" :> "Tagalog")
        @@ ("fil" :> "Filipino")

\* PDFProcessingService._detect_language(text): detected is what langdetect
\* answers on the text, "raises" when it finds no language
PDF_detect_language(text, detected) ==
    IF StrLen(Strip(text)) < min_text_length THEN "unknown"
    ELSE IF detected = "raises" THEN "unknown"
    ELSE IF detected \in DOMAIN language_map THEN language_map[detected]
    ELSE detected

RECURSIVE CollapseSpace(_)
\* re.sub(r'\s+', ' ', s)
CollapseSpace(s) ==
    IF s = <<>> THEN <<>>
    ELSE IF IsSpace(Head(s))
        THEN <<Sym(" ")>> \o CollapseSpace(LStrip(Tail(s)))
        ELSE <<Head(s)>> \o CollapseSpace(Tail(s))

RECURSIVE SpaceSpan(_)
\* the number of whitespace runs s starts with
SpaceSpan(s) ==
    IF s = <<>> \/ ~IsSpace(Head(s)) THEN 0 ELSE 1 + SpaceSpan(Tail(s))

RECURSIVE Breaks(_)
\* the number of line breaks in s
Breaks(s) ==
    IF s = <<>> THEN 0
    ELSE (IF Head(s)[1] = "\n" THEN Head(s)[2] ELSE 0) + Breaks(Tail(s))

\* r'\n\s*\n\s*\n' on one stretch w of whitespace: with three line breaks or
\* more in it, the greedy match runs from its first to its last line break
CollapseBlock(w) ==
    IF Breaks(w) < 3 THEN w
    ELSE LET at == {i \in 1..Len(w) : w[i][1] = "\n"}
         IN SubSeq(w, 1, Least(at) - 1)
                \o <<(<<"\n", 2>>)>>
                \o SubSeq(w, Greatest(at) + 1, Len(w))

RECURSIVE CollapseBreaks(_)
\* re.sub(r'\n\s*\n\s*\n', '\n\n', s)
CollapseBreaks(s) ==
    IF s = <<>> THEN <<>>
    ELSE IF IsSpace(Head(s))
        THEN LET n == SpaceSpan(s)
             IN CollapseBlock(SubSeq(s, 1, n))
                    \o CollapseBreaks(SubSeq(s, n + 1, Len(s)))
        ELSE <<Head(s)>> \o CollapseBreaks(Tail(s))

\* the punctuation the last expression of _clean_text leaves in place
KeptPunctuation ==
    {".", ",", "!", "?", ";", ":", "-", "(", ")", "[", "]", "{", "}",
     "\"", "'", "/", "\\"}

\* re.sub(r'[^\w\s\.\,\!\?\;\:\-\(\)\[\]\{\}\"\'\/\\\n]', ' ', s): every
\* other character becomes a blank
BlankArtifacts(s) ==
    Merge([i \in 1..Len(s) |->
              IF IsWord(s[i]) \/ IsSpace(s[i]) \/ s[i][1] \in KeptPunctuation
                  THEN s[i]
                  ELSE <<" ", s[i][2]>>])

\* PDFProcessingService._clean_text(text)
PDF_clean_text(text) ==
    IF text = <<>> THEN <<>>
    ELSE Strip(BlankArtifacts(CollapseBreaks(CollapseSpace(text))))

\* the result of extract_text_from_pdf, with the methods it tried in order
\* and the pages each of them read
ExtractionFailed(error, steps, read) ==
    [success |-> FALSE, error |-> error, text |-> <<>>,
     detected_language |-> "", word_count |-> 0, char_count |-> 0,
     steps |-> steps, read |-> read]

ExtractionDone(extracted_text, detected, steps, read) ==
    LET cleaned_text == PDF_clean_text(extracted_text)
    IN [success |-> TRUE, error |-> "", text |-> cleaned_text,
        detected_language |-> PDF_detect_language(extracted_text, detected),
        word_count |-> WordCount(cleaned_text),
        char_count |-> StrLen(cleaned_text),
        steps |-> steps, read |-> read]

\* not extracted_text or len(extracted_text.strip()) < 10
TooLittle(extracted_text) ==
    extracted_text = <<>> \/ StrLen(Strip(extracted_text)) < min_text_length

\* variant: method B is given a second try when it yields too little
PDF_extract_text_from_pdf_Retry(file) ==
    LET a == PDF_extract_with_pdfplumber(file)
        b == PDF_extract_with_pypdf2(file)
        extracted_text == IF TooLittle(a.text) THEN b.text ELSE a.text
        steps == IF ~TooLittle(a.text) THEN <<"pdfplumber">>
                 ELSE IF ~TooLittle(b.text) THEN <<"pdfplumber", "pypdf2">>
                 ELSE <<"pdfplumber", "pypdf2", "pypdf2">>
        read == [plumber |-> a.read,
                 pypdf2 |-> IF TooLittle(a.text) THEN b.read ELSE <<>>]
    IN IF TooLittle(extracted_text)
           THEN ExtractionFailed("Could not extract text from PDF", steps, read)
           ELSE ExtractionDone(extracted_text, file.detected, steps, read)

\* PDFProcessingService.extract_text_from_pdf(file, target_language): method
\* A (pdfplumber) first, method B (PyPDF2) when A yields too little
PDF_extract_text_from_pdf(file) ==
    LET a == PDF_extract_with_pdfplumber(file)
        b == PDF_extract_with_pypdf2(file)
        extracted_text == IF TooLittle(a.text) THEN b.text ELSE a.text
        steps == IF TooLittle(a.text)
                     THEN <<"pdfplumber", "pypdf2">>
                     ELSE <<"pdfplumber">>
        read == [plumber |-> a.read,
                 pypdf2 |-> IF TooLittle(a.text) THEN b.read ELSE <<>>]
    IN IF TooLittle(extracted_text)
           THEN ExtractionFailed("Could not extract text from PDF", steps, read)
           ELSE ExtractionDone(extracted_text, file.detected, steps, read)

-----------------------------------------------------------------------------
(* SEALionService: PDF summary *)

sea_summary_cap == 300

\* SEALionService._fallback_summary(text, cultural_context, target_language):
\* the first three pieces between full stops, joined again
SEALion_fallback_summary(text) ==
    LET sentences == First(Split(text, "."), 3)
        summary == Strip(Join(sentences, Chars(<<".", " ">>)))
        capped == IF StrLen(summary) > sea_summary_cap
                      THEN Concat(Take(summary, sea_summary_cap), Rep(".", 3))
                      ELSE summary
    IN IF capped = <<>>
           THEN Word("Medical document processed successfully.")
           ELSE capped

\* variant: no try/except around the method, so .strip() on a content that
\* is no string raises to the caller
SEALion_generate_pdf_summary_Uncaught(is_available, text, cultural_context, rep) ==
    LET fallback == SEALion_fallback_summary(text)
    IN IF ~is_available
           THEN Outcome(fallback, <<"sealion.fallback">>)
       ELSE LET response == SEALion_make_api_request(rep)
            IN IF ~response.none /\ response.val.type = "other"
                   THEN Raised(<<"sealion.request">>)
               ELSE IF /\ ~response.none
                       /\ response.val.str # <<>>
                       /\ Strip(response.val.str) # <<>>
                   THEN Outcome(Strip(response.val.str), <<"sealion.request">>)
                   ELSE Outcome(fallback, <<"sealion.request", "sealion.fallback">>)

\* SEALionService.generate_pdf_summary(text, cultural_context, target_language):
\* an id of no entry of sea_context_templates gets the default notes in the
\* prompt, and the request is made all the same
SEALion_generate_pdf_summary(is_available, text, cultural_context, rep) ==
    LET fallback == SEALion_fallback_summary(text)
    IN IF ~is_available
           THEN Outcome(fallback, <<"sealion.fallback">>)
       ELSE LET response == SEALion_make_api_request(rep)
            IN IF /\ ~response.none
                  /\ response.val.type = "str"
                  /\ response.val.str # <<>>
                  /\ Strip(response.val.str) # <<>>
                   THEN Outcome(Strip(response.val.str), <<"sealion.request">>)
                   ELSE Outcome(fallback, <<"sealion.request", "sealion.fallback">>)

-----------------------------------------------------------------------------
(* TextSummarizationService *)

model_names == <<"gemini-1.5-flash", "gemini-1.5-pro", "gemini-pro">>

RECURSIVE TryModels(_, _, _)
\* the loop over model_names from the i-th on: self.model is assigned before
\* the test call, and stays assigned when the test call raises
TryModels(tests, i, held) ==
    IF i > Len(model_names) THEN [returned |-> FALSE, model |-> held]
    ELSE IF tests[i] = "ok" THEN [returned |-> TRUE, model |-> model_names[i]]
    ELSE TryModels(tests, i + 1, model_names[i])

\* TextSummarizationService._initialize_gemini: what it returns and what it
\* leaves in self.model; tests[i] is how the test call of the i-th model ends
Summarizer_initialize_gemini(has_api_key, sdk_raises, tests) ==
    IF ~has_api_key \/ sdk_raises
        THEN [returned |-> FALSE, model |-> "None"]
        ELSE TryModels(tests, 1, "None")

summary_cap == 300
min_analysis_length == 10

SentenceEnds == {".", "!", "?"}

RECURSIVE SentencesOf(_, _, _)
\* the loop of _fallback_summary over the characters of s: a sentence closes
\* at each terminator, and the loop ends with the third one
SentencesOf(s, current_sentence, sentences) ==
    IF s = <<>> \/ Len(sentences) >= 3 THEN sentences
    ELSE IF Head(s)[1] \in SentenceEnds
        THEN SentencesOf(IF Head(s)[2] = 1
                             THEN Tail(s)
                             ELSE <<(<<Head(s)[1], Head(s)[2] - 1>>)>> \o Tail(s),
                         <<>>,
                         Append(sentences,
                                Strip(Concat(current_sentence, Rep(Head(s)[1], 1)))))
        ELSE SentencesOf(Tail(s), Concat(current_sentence, <<Head(s)>>), sentences)

\* TextSummarizationService._fallback_summary(text)
Summarizer_fallback_summary(text) ==
    IF text = <<>> THEN Word("No content to summarize.")
    ELSE LET sentences == SentencesOf(text, <<>>, <<>>)
             summary == Strip(Join(sentences, Rep(" ", 1)))
             capped == IF StrLen(summary) > summary_cap
                           THEN Concat(Take(summary, summary_cap), Rep(".", 3))
                           ELSE summary
         IN IF capped = <<>>
                THEN Word("Content processed successfully.")
                ELSE capped

\* response.text of a generate_content call is a string: the SDK raises on
\* an error status and when the answer holds no text
HasText(rep) == rep.kind = "http" /\ rep.status = 200 /\ rep.content.type = "str"

\* TextSummarizationService._generate_summary(text, target_language,
\* summary_length)
Summarizer_generate_summary(has_model, text, rep) ==
    LET fallback == Summarizer_fallback_summary(text)
    IN IF ~has_model
           THEN Outcome(fallback, <<"gemini.fallback">>)
       ELSE IF HasText(rep) /\ rep.content.str # <<>>
           \* "if response.text:" is true of a blank text too
           THEN Outcome(Strip(rep.content.str), <<"gemini.generate_content">>)
       ELSE Outcome(fallback, <<"gemini.generate_content", "gemini.fallback">>)

\* the markers of a bullet line: u2022 is the bullet character
bullets == {"u2022", "-", "*"}

RECURSIVE LStripBullets(_)
\* line.lstrip(the bullet markers)
LStripBullets(s) ==
    IF s = <<>> THEN <<>>
    ELSE IF Head(s)[1] \in bullets THEN LStripBullets(Tail(s)) ELSE s

RECURSIVE BulletPoints(_)
\* the loop of _extract_key_points over the lines of the answer
BulletPoints(lines) ==
    IF lines = <<>> THEN <<>>
    ELSE LET line == Strip(Head(lines))
             clean_point == Strip(LStripBullets(line))
         IN IF line # <<>> /\ Head(line)[1] \in bullets /\ clean_point # <<>>
                THEN <<clean_point>> \o BulletPoints(Tail(lines))
                ELSE BulletPoints(Tail(lines))

medical_keywords ==
    { <<"m","e","d","i","c","a","t","i","o","n">>,
      <<"d","o","s","e">>,
      <<"t","r","e","a","t","m","e","n","t">>,
      <<"d","o","c","t","o","r">>,
      <<"h","o","s","p","i","t","a","l">>,
      <<"s","y","m","p","t","o","m","s">>,
      <<"d","i","a","g","n","o","s","i","s">>,
      <<"p","r","e","s","c","r","i","p","t","i","o","n">>,
      <<"i","m","p","o","r","t","a","n","t">>,
      <<"w","a","r","n","i","n","g">> }

RECURSIVE KeywordPoints(_, _)
\* the first loop of _fallback_key_points: sentences that name a keyword
KeywordPoints(sentences, key_points) ==
    IF sentences = <<>> \/ Len(key_points) >= 3 THEN key_points
    ELSE LET sentence == Strip(Head(sentences))
         IN IF /\ \E keyword \in medical_keywords : Contains(Fold(sentence), keyword)
               /\ StrLen(sentence) > 10
               /\ StrLen(sentence) < 200
                THEN KeywordPoints(Tail(sentences), Append(key_points, sentence))
                ELSE KeywordPoints(Tail(sentences), key_points)

RECURSIVE LongPoints(_, _)
\* its second loop: sentences of more than 20 characters
LongPoints(sentences, key_points) ==
    IF sentences = <<>> \/ Len(key_points) >= 3 THEN key_points
    ELSE LET sentence == Strip(Head(sentences))
         IN IF StrLen(sentence) > 20
                THEN LongPoints(Tail(sentences), Append(key_points, sentence))
                ELSE LongPoints(Tail(sentences), key_points)

\* TextSummarizationService._fallback_key_points(text)
Summarizer_fallback_key_points(text) ==
    IF text = <<>> THEN <<>>
    ELSE LET sentences == Split(text, ".")
             key_points == KeywordPoints(First(sentences, 10), <<>>)
         IN IF key_points = <<>>
                THEN LongPoints(First(sentences, 5), <<>>)
                ELSE key_points

\* the key points of a text with the steps taken for them
Points(points, steps) == [points |-> points, steps |-> steps]

\* TextSummarizationService._extract_key_points(text, target_language)
Summarizer_extract_key_points(has_model, text, rep) ==
    IF ~has_model
        THEN Points(Summarizer_fallback_key_points(text), <<"gemini.fallback_key_points">>)
    ELSE IF HasText(rep) /\ rep.content.str # <<>>
        THEN Points(First(BulletPoints(Split(Strip(rep.content.str), "\n")), 5),
                    <<"gemini.generate_content">>)
    ELSE Points(Summarizer_fallback_key_points(text),
                <<"gemini.generate_content", "gemini.fallback_key_points">>)

\* the result of analyze_and_summarize, with the steps it took
Analysis(success, error, summary, key_points, word_count, steps) ==
    [success |-> success, error |-> error, summary |-> summary,
     key_points |-> key_points, word_count |-> word_count, steps |-> steps]

\* variant: the length of the text is not looked at
analyze_and_summarize_NoLengthCheck(has_model, text, rep_summary, rep_points) ==
    LET summary == Summarizer_generate_summary(has_model, text, rep_summary)
        key_points == Summarizer_extract_key_points(has_model, text, rep_points)
    IN Analysis(TRUE, "", summary.text, key_points.points, WordCount(text),
                summary.steps \o key_points.steps)

\* TextSummarizationService.analyze_and_summarize(text, target_language,
\* summary_length): the language and the length asked for go into the prompt
analyze_and_summarize(has_model, text, rep_summary, rep_points) ==
    IF text = <<>> \/ StrLen(Strip(text)) < min_analysis_length
        THEN Analysis(FALSE, "Text too short for analysis", <<>>, <<>>, 0, <<>>)
        ELSE LET summary == Summarizer_generate_summary(has_model, text, rep_summary)
                 key_points == Summarizer_extract_key_points(has_model, text, rep_points)
             IN Analysis(TRUE, "", summary.text, key_points.points, WordCount(text),
                         summary.steps \o key_points.steps)

-----------------------------------------------------------------------------
(* PDFProcessingService._build_gemini_analysis_prompt *)

\* the ids of the catalog CULTURAL_CONTEXTS
CULTURAL_CONTEXTS ==
    {"tagalog-rural", "thai-low-literacy", "khmer-indigenous",
     "vietnamese-elderly", "malay-traditional"}

\* characters outside ASCII are written uXXXX, their code point
language_instructions ==
    ("en" :> "Respond in clear, simple English")
        @@ ("tl" :> "Mag-respond sa madaling unawain na Filipino/Tagalog")
        @@ ("th" :> "u0E15u0E2Du0E1Au0E40u0E1Bu0E47u0E19u0E20u0E32u0E29u0E32u0E44u0E17u0E22u0E17u0E35u0E48u0E40u0E02u0E49u0E32u0E43u0E08u0E07u0E48u0E32u0E22")
        @@ ("vi" :> "Tru1EA3 lu1EDDi bu1EB1ng tiu1EBFng Viu1EC7t du1EC5 hiu1EC3u")
        @@ ("ms" :> "Jawab dalam Bahasa Melayu yang mudah difahami")
        @@ ("km" :> "u1786u17D2u179Bu17BEu1799u1787u17B6u1797u17B6u179Fu17B6u1781u17D2u1798u17C2u179Au178Au17C2u179Bu1784u17B6u1799u1799u179Bu17CB")

cultural_notes ==
    ("filipino" :> "Consider Filipino healthcare practices, family involvement in medical decisions, and respect for authority figures.")
        @@ ("thai" :> "Consider Thai Buddhist perspectives on health, traditional medicine integration, and family hierarchy in healthcare.")
        @@ ("vietnamese" :> "Consider Vietnamese traditional medicine, family-centered care, and communication styles.")
        @@ ("malay" :> "Consider Islamic perspectives on health, halal considerations, and community-centered healthcare.")
        @@ ("khmer" :> "Consider Cambodian traditional healing practices, Buddhist beliefs, and extended family involvement.")

cultural_notes_default == "Consider general healthcare best practices."

\* the two instructions _build_gemini_analysis_prompt puts into the prompt:
\* cultural_notes.get(cultural_context, default) and
\* language_instructions.get(target_language, language_instructions['en'])
PDF_build_gemini_analysis_prompt(cultural_context, target_language) ==
    [language_instruction |->
        IF InTable(language_instructions, target_language)
            THEN language_instructions[target_language[1][1]]
            ELSE language_instructions["en"],
     cultural_note |->
        IF InTable(cultural_notes, cultural_context)
            THEN cultural_notes[cultural_context[1][1]]
            ELSE cultural_notes_default,
     found |-> InTable(cultural_notes, cultural_context)]

-----------------------------------------------------------------------------
(* PDFProcessingService: action items and structured extraction *)

\* the characters line.lstrip('0123456789.-•') takes off
solution_strip == Digits \cup {".", "-", "u2022"}

RECURSIVE LStripSolution(_)
LStripSolution(s) ==
    IF s = <<>> THEN <<>>
    ELSE IF Head(s)[1] \in solution_strip THEN LStripSolution(Tail(s)) ELSE s

RECURSIVE SolutionItems(_)
\* the loop of generate_cultural_solutions over the lines of the answer: a
\* line that starts with a digit, "-" or "•" is kept without its marker
SolutionItems(lines) ==
    IF lines = <<>> THEN <<>>
    ELSE LET line == Strip(Head(lines))
             clean_solution == Strip(LStripSolution(line))
         IN IF /\ line # <<>>
               /\ (Head(line)[1] \in Digits \/ Head(line)[1] \in {"-", "u2022"})
               /\ clean_solution # <<>>
                THEN <<clean_solution>> \o SolutionItems(Tail(lines))
                ELSE SolutionItems(Tail(lines))

solutions_by_context ==
    ("tagalog-rural" :>
        <<"Makipag-ugnayan sa inyong doktor para sa personal na payo",
         "Sundin ang mga tagubilin sa paginom ng gamot",
         "Magtakda ng regular na appointment para sa follow-up",
         "Bantayan ang mga sintomas at iulat ang mga pagbabago",
         "Makipag-ugnayan sa inyong pamilya tungkol sa treatment plan">>)
    @@ ("thai-low-literacy" :>
        <<"u0E1Bu0E23u0E36u0E01u0E29u0E32u0E41u0E1Eu0E17u0E22u0E4Cu0E40u0E1Eu0E37u0E48u0E2Du0E23u0E31u0E1Au0E04u0E33u0E41u0E19u0E30u0E19u0E33u0E2Au0E48u0E27u0E19u0E1Au0E38u0E04u0E04u0E25",
         "u0E17u0E32u0E19u0E22u0E32u0E15u0E32u0E21u0E17u0E35u0E48u0E41u0E1Eu0E17u0E22u0E4Cu0E2Au0E31u0E48u0E07",
         "u0E19u0E31u0E14u0E2Bu0E21u0E32u0E22u0E41u0E1Eu0E17u0E22u0E4Cu0E40u0E1Bu0E47u0E19u0E1Bu0E23u0E30u0E08u0E33",
         "u0E2Au0E31u0E07u0E40u0E01u0E15u0E2Du0E32u0E01u0E32u0E23u0E41u0E25u0E30u0E23u0E32u0E22u0E07u0E32u0E19u0E01u0E32u0E23u0E40u0E1Bu0E25u0E35u0E48u0E22u0E19u0E41u0E1Bu0E25u0E07",
         "u0E02u0E2Du0E43u0E2Bu0E49u0E04u0E23u0E2Du0E1Au0E04u0E23u0E31u0E27u0E0Au0E48u0E27u0E22u0E08u0E33u0E23u0E32u0E22u0E25u0E30u0E40u0E2Du0E35u0E22u0E14u0E01u0E32u0E23u0E23u0E31u0E01u0E29u0E32">>)
    @@ ("khmer-indigenous" :>
        <<"u1796u17B7u1782u17D2u179Au17C4u17C7u1787u17B6u1798u17BDu1799u179Cu17C1u1787u17D2u1787u1794u178Eu17D2u178Cu17B7u178Fu179Fu1798u17D2u179Au17B6u1794u17CBu1780u17B6u179Au178Eu17C2u1793u17B6u17C6u1795u17D2u1791u17B6u179Bu17CBu1781u17D2u179Bu17BDu1793",
         "u1789u17C9u17B6u17C6u1790u17D2u1793u17B6u17C6u178Fu17B6u1798u1780u17B6u179Au178Eu17C2u1793u17B6u17C6",
         "u1780u178Fu17CBu178Fu17D2u179Au17B6u1793u17C5u179Cu17C1u1787u17D2u1787u1794u178Eu17D2u178Cu17B7u178Fu1787u17B6u1791u17C0u1784u1791u17B6u178Fu17CB",
         "u179Fu1784u17D2u1780u17C1u178Fu1798u17BEu179Bu179Au17C4u1782u179Fu1789u17D2u1789u17B6u1793u17B7u1784u179Au17B6u1799u1780u17B6u179Au178Eu17CDu1780u17B6u179Au1795u17D2u179Bu17B6u179Fu17CBu1794u17D2u178Fu17BCu179A",
         "u1796u17B7u1797u17B6u1780u17D2u179Fu17B6u1787u17B6u1798u17BDu1799u1782u17D2u179Au17BDu179Fu17B6u179Au17A2u17C6u1796u17B8u1795u17C2u1793u1780u17B6u179Au1796u17D2u1799u17B6u1794u17B6u179B">>)
    @@ ("vietnamese-elderly" :>
        <<"Tham khu1EA3o u00FD kiu1EBFn bu00E1c su0129 u0111u1EC3 nhu1EADn tu01B0 vu1EA5n cu00E1 nhu00E2n",
         "Uu1ED1ng thuu1ED1c theo u0111u00FAng chu1EC9 u0111u1ECBnh",
         "u0110u1EB7t lu1ECBch tu00E1i khu00E1m u0111u1ECBnh ku1EF3",
         "Theo du00F5i cu00E1c triu1EC7u chu1EE9ng vu00E0 bu00E1o cu00E1o thay u0111u1ED5i",
         "Thu1EA3o luu1EADn vu1EDBi gia u0111u00ECnh vu1EC1 ku1EBF hou1EA1ch u0111iu1EC1u tru1ECB">>)
    @@ ("malay-traditional" :>
        <<"Rujuk doktor untuk nasihat peribadi",
         "Ikut arahan pengambilan ubat",
         "Buat temujanji susulan berkala",
         "Pantau simptom dan laporkan perubahan",
         "Berbincang dengan keluarga mengenai rancangan rawatan">>)

solutions_default ==
    <<"Rujuk doktor untuk maklumat lanjut",
      "Ikut semua arahan perubatan",
      "Pantau kesihatan dengan kerap">>

\* the entries of a table of phrases, as strings
Phrases(list) == [i \in 1..Len(list) |-> Word(list[i])]

\* PDFProcessingService._fallback_solutions(text, cultural_context)
PDF_fallback_solutions(cultural_context) ==
    IF InTable(solutions_by_context, cultural_context)
        THEN Phrases(solutions_by_context[cultural_context[1][1]])
        ELSE Phrases(solutions_default)

\* the most solutions generate_cultural_solutions returns from an answer
max_solutions == 7

\* PDFProcessingService.generate_cultural_solutions(text, cultural_context,
\* target_language), the provider answering rep when it is asked
PDF_generate_cultural_solutions(has_model, cultural_context, rep) ==
    IF ~has_model
        THEN Points(PDF_fallback_solutions(cultural_context), <<"gemini.fallback_solutions">>)
    ELSE IF HasText(rep) /\ rep.content.str # <<>>
        THEN Points(First(SolutionItems(Split(Strip(rep.content.str), "\n")), max_solutions),
                    <<"gemini.generate_content">>)
    ELSE Points(PDF_fallback_solutions(cultural_context),
                <<"gemini.generate_content", "gemini.fallback_solutions">>)

\* the header phrases of _parse_medical_analysis, in the order they are
\* tested, with the section each opens
section_headers ==
    <<[phrase |-> <<"k", "e", "y", " ", "t", "e", "r", "m", "s">>,
       section |-> "key_terms"],
      [phrase |-> <<"m", "e", "d", "i", "c", "a", "l", " ",
                    "c", "o", "n", "c", "e", "p", "t", "s">>,
       section |-> "medical_concepts"],
      [phrase |-> <<"i", "n", "s", "t", "r", "u", "c", "t", "i", "o", "n", "s">>,
       section |-> "instructions"]>>

\* the index of the first header phrase in line.upper(), 0 when there is
\* none: for these phrases the same as the lower-case phrase in line.lower()
HeaderOf(line) ==
    LET found == {h \in 1..Len(section_headers) :
                     Contains(Fold(line), section_headers[h].phrase)}
    IN IF found = {} THEN 0 ELSE Least(found)

RECURSIVE LStripItem(_)
\* line.lstrip('-•')
LStripItem(s) ==
    IF s = <<>> THEN <<>>
    ELSE IF Head(s)[1] \in {"-", "u2022"} THEN LStripItem(Tail(s)) ELSE s

NoSections == [key_terms |-> <<>>, medical_concepts |-> <<>>, instructions |-> <<>>]

RECURSIVE ParseLines(_, _, _)
\* the loop of _parse_medical_analysis: current_section is "None" before
\* the first header
ParseLines(lines, current_section, result_) ==
    IF lines = <<>> THEN result_
    ELSE LET line == Strip(Head(lines))
             h == HeaderOf(line)
             clean_item == Strip(LStripItem(line))
         IN IF h # 0
                THEN ParseLines(Tail(lines), section_headers[h].section, result_)
            ELSE IF /\ line # <<>>
                    /\ \/ Head(line)[1] = "-"
                       \/ (Head(line)[1] = "u2022" /\ current_section # "None")
                    /\ clean_item # <<>>
                    /\ current_section # "None"
                THEN ParseLines(Tail(lines), current_section,
                                [result_ EXCEPT ![current_section] =
                                                    Append(@, clean_item)])
            ELSE ParseLines(Tail(lines), current_section, result_)

\* PDFProcessingService._parse_medical_analysis(analysis_text)
PDF_parse_medical_analysis(analysis_text) ==
    ParseLines(Split(analysis_text, "\n"), "None", NoSections)

language_to_context ==
    ("tl" :> "tagalog-rural") @@ ("th" :> "thai-low-literacy")
        @@ ("km" :> "khmer-indigenous") @@ ("vi" :> "vietnamese-elderly")
        @@ ("ms" :> "malay-traditional") @@ ("en" :> "malay-traditional")

concepts_by_context ==
    ("tagalog-rural" :>
        [key_terms |->
            <<"gamot", "doktor", "ospital", "sakit", "lunas">>,
         medical_concepts |->
            <<"Pangangalaga ng kalusugan", "Pagsunod sa gamot", "Regular na checkup">>,
         instructions |->
            <<"Uminom ng gamot ayon sa tagubilin", "Makipag-ugnayan sa doktor kung may tanong">>])
    @@ ("thai-low-literacy" :>
        [key_terms |->
            <<"u0E22u0E32", "u0E2Bu0E21u0E2D", "u0E42u0E23u0E07u0E1Eu0E22u0E32u0E1Au0E32u0E25", "u0E2Du0E32u0E01u0E32u0E23", "u0E01u0E32u0E23u0E23u0E31u0E01u0E29u0E32">>,
         medical_concepts |->
            <<"u0E01u0E32u0E23u0E14u0E39u0E41u0E25u0E2Au0E38u0E02u0E20u0E32u0E1E", "u0E01u0E32u0E23u0E17u0E32u0E19u0E22u0E32", "u0E01u0E32u0E23u0E15u0E23u0E27u0E08u0E2Au0E38u0E02u0E20u0E32u0E1E">>,
         instructions |->
            <<"u0E17u0E32u0E19u0E22u0E32u0E15u0E32u0E21u0E41u0E1Eu0E17u0E22u0E4Cu0E2Au0E31u0E48u0E07", "u0E15u0E34u0E14u0E15u0E48u0E2Du0E41u0E1Eu0E17u0E22u0E4Cu0E2Bu0E32u0E01u0E21u0E35u0E02u0E49u0E2Du0E2Au0E07u0E2Au0E31u0E22">>])
    @@ ("khmer-indigenous" :>
        [key_terms |->
            <<"u1790u17D2u1793u17B6u17C6", "u179Cu17C1u1787u17D2u1787u1794u178Eu17D2u178Cu17B7u178F", "u1798u1793u17D2u1791u17B8u179Au1796u17C1u1791u17D2u1799", "u179Au17C4u1782u179Fu1789u17D2u1789u17B6", "u1780u17B6u179Au1796u17D2u1799u17B6u1794u17B6u179B">>,
         medical_concepts |->
            <<"u1780u17B6u179Au1790u17C2u1791u17B6u17C6u179Fu17BBu1781u1797u17B6u1796", "u1780u17B6u179Au1789u17C9u17B6u17C6u1790u17D2u1793u17B6u17C6", "u1780u17B6u179Au1796u17B7u1793u17B7u178Fu17D2u1799u179Fu17BBu1781u1797u17B6u1796">>,
         instructions |->
            <<"u1789u17C9u17B6u17C6u1790u17D2u1793u17B6u17C6u178Fu17B6u1798u1780u17B6u179Au178Eu17C2u1793u17B6u17C6", "u1791u17B6u1780u17CBu1791u1784u179Cu17C1u1787u17D2u1787u1794u178Eu17D2u178Cu17B7u178Fu1794u17D2u179Au179Fu17B7u1793u1794u17BEu1798u17B6u1793u179Fu17C6u178Eu17BDu179A">>])
    @@ ("vietnamese-elderly" :>
        [key_terms |->
            <<"thuu1ED1c", "bu00E1c su0129", "bu1EC7nh viu1EC7n", "triu1EC7u chu1EE9ng", "u0111iu1EC1u tru1ECB">>,
         medical_concepts |->
            <<"Chu0103m su00F3c su1EE9c khu1ECFe", "Uu1ED1ng thuu1ED1c u0111u00FAng cu00E1ch", "Khu00E1m su1EE9c khu1ECFe u0111u1ECBnh ku1EF3">>,
         instructions |->
            <<"Uu1ED1ng thuu1ED1c theo chu1EC9 u0111u1ECBnh", "Liu00EAn hu1EC7 bu00E1c su0129 nu1EBFu cu00F3 thu1EAFc mu1EAFc">>])
    @@ ("malay-traditional" :>
        [key_terms |->
            <<"ubat", "doktor", "hospital", "simptom", "rawatan">>,
         medical_concepts |->
            <<"Penjagaan kesihatan", "Pengambilan ubat", "Pemeriksaan kesihatan">>,
         instructions |->
            <<"Ambil ubat mengikut arahan", "Hubungi doktor jika ada pertanyaan">>])

\* PDFProcessingService._fallback_medical_concepts(text, target_language)
PDF_fallback_medical_concepts(target_language) ==
    LET context_key == IF InTable(language_to_context, target_language)
                           THEN language_to_context[target_language[1][1]]
                           ELSE "malay-traditional"
        concepts == concepts_by_context[context_key]
    IN [key_terms |-> Phrases(concepts.key_terms),
        medical_concepts |-> Phrases(concepts.medical_concepts),
        instructions |-> Phrases(concepts.instructions)]

Concepts(concepts, steps) == [concepts |-> concepts, steps |-> steps]

\* PDFProcessingService.extract_medical_concepts(text, target_language): an
\* answer without text falls back for the default language
PDF_extract_medical_concepts(has_model, target_language, rep) ==
    IF ~has_model
        THEN Concepts(PDF_fallback_medical_concepts(target_language),
                      <<"gemini.fallback_medical_concepts">>)
    ELSE IF HasText(rep) /\ rep.content.str # <<>>
        THEN Concepts(PDF_parse_medical_analysis(rep.content.str),
                      <<"gemini.generate_content">>)
    ELSE IF HasText(rep)
        THEN Concepts(PDF_fallback_medical_concepts(Word("en")),
                      <<"gemini.generate_content", "gemini.fallback_medical_concepts">>)
    ELSE Concepts(PDF_fallback_medical_concepts(target_language),
                  <<"gemini.generate_content", "gemini.fallback_medical_concepts">>)

-----------------------------------------------------------------------------
(* app.py: POST /api/extract-pdf *)

\* jsonify({'success': False, 'error': {'message': message}}), 400
PdfBadRequest(message) ==
    [status |-> 400,
     success |-> FALSE,
     error_message |-> message,
     error_details |-> "",
     summary |-> <<>>,
     fileName |-> <<>>,
     detectedLanguage |-> "",
     outputLanguage |-> <<>>,
     wordCount |-> 0,
     culturalContext |-> <<>>]

\* jsonify({'success': True, 'data': response_data}), 200
PdfDone(summary, file, extraction_result, target_language, context) ==
    [status |-> 200,
     success |-> TRUE,
     error_message |-> "",
     error_details |-> "",
     summary |-> summary,
     fileName |-> file.filename,
     detectedLanguage |-> extraction_result.detected_language,
     outputLanguage |-> target_language,
     wordCount |-> WordCount(extraction_result.text),
     culturalContext |-> context]

\* request.form.get(key, default)
FormGet(field, default) == IF field.type = "absent" THEN default ELSE field.str

\* the summary of the extracted text: from SEA-Lion when it is available,
\* from the summarizer otherwise; the key points call, whose outcome the
\* response does not carry, is answered like the summary call
Summarise(sea_available, summarizer_model, text, context, rep) ==
    IF sea_available
        THEN SEALion_generate_pdf_summary(sea_available, text, context, rep)
        ELSE LET summary_result ==
                     analyze_and_summarize(summarizer_model # "None", text, rep, rep)
             IN Outcome(summary_result.summary, summary_result.steps)

\* extract_pdf(): the whole handler on the parsed form
extract_pdf(sea_available, summarizer_model, form, rep) ==
    IF ~form.has_file
        THEN Handled(PdfBadRequest("No PDF file uploaded"), <<>>)
    ELSE LET file == form.file
             context == FormGet(form.context, Word("general"))
             target_language == FormGet(form.target_language, Word("en"))
             extraction_result == PDF_extract_text_from_pdf(file)
         IN IF ~extraction_result.success
                THEN Handled(PdfBadRequest("PDF extraction failed: "
                                               \o extraction_result.error),
                             extraction_result.steps)
            ELSE LET s == Summarise(sea_available, summarizer_model,
                                    extraction_result.text, context, rep)
                 IN IF s.raised
                        \* except Exception as e: return handle_error(e)
                        THEN Handled(handle_error(ServiceError),
                                     extraction_result.steps \o s.steps)
                        ELSE Handled(PdfDone(s.text, file, extraction_result,
                                             target_language, context),
                                     extraction_result.steps \o s.steps)

-----------------------------------------------------------------------------
(* app.py: GET /api/health *)

\* health_check(): CulturalAdaptationService has the attributes api_key,
\* model and context_templates and no attribute ai_available, so that
\* hasattr(cultural_service, 'ai_available') is false and gemini_available
\* is the False of the else branch
health_check(sea_available) ==
    [status |-> 200,
     health |-> "OK",
     sealion_available |-> sea_available,
     gemini_available |-> FALSE,
     primary_service |-> IF sea_available THEN "SEA-Lion" ELSE "Gemini"]

-----------------------------------------------------------------------------
(* The inputs tried *)

\* surrounding whitespace: none, or up to MaxPad blanks or line breaks
Pads == {<<>>} \cup {Rep(c, n) : c \in {" ", "\n"}, n \in 1..MaxPad}

Padded(l, s, r) == Concat(l, Concat(s, r))

\* lengths around both limits, and 0
Lengths ==
    {0} \cup ((min_message_length - Slack)..(min_message_length + Slack))
        \cup ((max_message_length - Slack)..(max_message_length + Slack))

\* plain text of each length: the letter z does not occur in any pattern
PlainTexts == {Rep("z", n) : n \in Lengths}

\* pieces of markup, some matching a forbidden pattern and some close to one
Fragments ==
    { Chars(<<"<","s","c","r","i","p","t",">","x","<","/","s","c","r","i","p","t",">">>),
      Chars(<<"<","S","C","R","I","P","T",">","x","<","/","S","c","r","i","p","t",">">>),
      Chars(<<"<","s","c","r","i","p","t"," ","s","r","c","=","x",">">>),
      Chars(<<"<","s","c","r","i","p","t",">","\n","<","/","s","c","r","i","p","t",">">>),
      Chars(<<"<","/","s","c","r","i","p","t",">">>),
      Chars(<<"j","a","v","a","s","c","r","i","p","t",":">>),
      Chars(<<"J","a","V","a","S","c","R","i","P","t",":">>),
      Chars(<<"j","a","v","a"," ","s","c","r","i","p","t",":">>),
      Chars(<<"o","n","c","l","i","c","k","=">>),
      Chars(<<"O","N","L","O","A","D"," ","=">>),
      Chars(<<"o","n","=">>),
      Chars(<<"c","o","n","d","i","t","i","o","n","=">>) }

\* a fragment alone, and after enough plain text to be long enough
MarkupTexts ==
    {Concat(Rep("z", n), Concat(Rep(" ", 1), f)) :
        n \in {0, min_message_length}, f \in Fragments}

\* the arguments validate_message is tried on
Messages ==
    {StrVal(Padded(l, t, r)) : l \in Pads, r \in Pads, t \in PlainTexts \cup MarkupTexts}
        \cup {NonStr}

\* the message fields of the request bodies tried
BodyMessages ==
    {StrVal(Padded(l, t, l)) :
        l \in {<<>>, Rep(" ", MaxPad)},
        t \in {Rep("z", n) : n \in {0, min_message_length - 1, min_message_length,
                                   max_message_length, max_message_length + 1}}
              \cup {Concat(Rep("z", min_message_length), Concat(Rep(" ", 1), f)) :
                        f \in {Chars(<<"j","a","v","a","s","c","r","i","p","t",":">>),
                               Chars(<<"o","n","=">>)}}}
        \cup {NonStr, Absent}

\* the context fields: every id of the tables, ids of no table, an id with
\* whitespace around it, blank and empty strings, no string, no field
BodyContexts ==
    {StrVal(Word(k)) : k \in DOMAIN context_templates \cup DOMAIN sea_context_templates}
        \cup {StrVal(Word("general")), StrVal(Word("klingon-formal")),
              StrVal(Padded(Rep(" ", 1), Word("thai-low-literacy"), Rep("\n", 1))),
              StrVal(Rep(" ", MaxPad)), StrVal(<<>>), NonStr, Absent}

Body(kind, message, context) ==
    [kind |-> kind, message |-> message, context |-> context]

\* request.get_json(): nothing, an empty value, a value that is no object,
\* or an object with these two fields
Bodies ==
    {Body(k, Absent, Absent) : k \in {"none", "empty", "array"}}
        \cup {Body("object", m, c) : m \in BodyMessages, c \in BodyContexts}

\* the answers of a provider: a text, a text with whitespace around it, an
\* empty or blank text, a content that is no string, no content, an error
\* status, an exception
ReplyTexts ==
    {<<>>, Word("adapted"),
     Padded(Rep(" ", 1), Word("adapted"), Rep("\n", 1))}
        \cup {Rep(c, n) : c \in {" ", "\n"}, n \in 1..MaxPad}

Replies ==
    {Http(200, StrVal(t)) : t \in ReplyTexts}
        \cup {Http(200, NonStr), Http(200, Absent),
              Http(500, StrVal(Word("error"))), Raises}

\* the texts a page can hold: four sentences with keywords in them, a text
\* of the least usable length with no sentence in it, one that is too short
\* once trimmed, one of artifacts only, one with artifacts, blanks and line
\* breaks between its words, nothing at all, and sentences around the
\* length at which a summary is cut
PageTexts ==
    {Chars(<<"T","a","k","e"," ","d","o","s","e",".",
            " ","G","o","!"," ","O","k","?"," ","E","n","d",".">>),
     Rep("a", min_text_length),
     Padded(Rep(" ", MaxPad), Rep("a", min_text_length - 1), Rep("\n", 1)),
     Rep("@", min_text_length + 2),
     Merge(Chars(<<"a","b"," "," ","@"," ","c","d",".","\n","\n","\n",
                  "e","f"," ","#","1","!"," ","g","h","i","j","k">>)),
     <<>>}
        \cup {Concat(Rep("a", n), Chars(<<".", " ", "b", ".">>)) :
                 n \in (summary_cap - 1 - Slack)..(summary_cap - 1 + Slack)}

BothOpen == [plumber |-> TRUE, pypdf2 |-> TRUE]
NoneOpens == [plumber |-> FALSE, pypdf2 |-> FALSE]

\* the pages of the documents tried: one page that both libraries read
\* alike; one that pdfplumber fails on, or reads too little of; two pages
\* that are long enough only together
Documents ==
    {<<Page(PageText(t), PageText(t))>> : t \in PageTexts}
        \cup {<<Page(a, PageText(b))>> :
                 a \in {PageRaises, PageText(Rep("a", min_text_length - 1))},
                 b \in {Rep("b", min_text_length), Rep("b", min_text_length - 1)}}
        \cup {<<Page(PageText(Rep("a", 5)), PageRaises),
                Page(PageText(Rep("b", 5)), PageText(Rep("b", min_text_length)))>>}

\* the letter that fills page page_num of a long document
PageLetters == <<"a", "b", "c", "d", "e", "f", "g", "h", "i", "j", "k", "l", "m">>

\* the number of pages of the longest document tried
MaxPages == 12

\* a document of n pages, each with its own two letters, on which
\* page.extract_text() raises for the page indexes in plumber_raises with
\* pdfplumber and for those in pypdf2_raises with PyPDF2
LongDocument(n, plumber_raises, pypdf2_raises) ==
    [i \in 1..n |->
        Page(IF (i - 1) \in plumber_raises
                 THEN PageRaises ELSE PageText(Rep(PageLetters[i], 2)),
             IF (i - 1) \in pypdf2_raises
                 THEN PageRaises ELSE PageText(Rep(PageLetters[i], 2)))]

\* documents around the page limit: of ten pages and more, read without an
\* error, with errors on the pages before, at and after the limit, and
\* with errors on every page of one library
LongDocuments ==
    {LongDocument(n, {}, {}) : n \in (max_pages - 1)..MaxPages}
        \cup {LongDocument(n, pr, {}) :
                 n \in (max_pages + 1)..MaxPages,
                 pr \in {{0}, {plumber_last_page - 1}, {plumber_last_page},
                         {plumber_last_page, plumber_last_page + 1},
                         {plumber_last_page + 1}}}
        \cup {LongDocument(n, 0..(n - 1), qr) :
                 n \in (max_pages + 1)..MaxPages,
                 qr \in {{}, {max_pages - 1}, {max_pages}}}

FileNames ==
    {Concat(Word("report"), Chars(<<".", "p", "d", "f">>)),
     Concat(Word("REPORT"), Chars(<<".", "P", "D", "F">>)),
     Concat(Word("notes"), Chars(<<".", "t", "x", "t">>)),
     Concat(Word("report"), Chars(<<".", "p", "d", "f", ".", "e", "x", "e">>))}

\* declared sizes: none, and the sizes around the limit
FileSizes ==
    {0} \cup ((max_size_mb * 1024 * 1024 - Slack)..(max_size_mb * 1024 * 1024 + Slack))

\* the uploads tried: every document under a good name, one document under
\* every name and size, and a file no library can open
Files ==
    {Upload(Concat(Word("report"), Chars(<<".", "p", "d", "f">>)), 0, BothOpen, d, "ms") :
        d \in Documents}
    \cup {Upload(n, s, BothOpen, <<Page(PageText(Rep("a", min_text_length)),
                                        PageText(Rep("a", min_text_length)))>>, "xx") :
             n \in FileNames, s \in FileSizes}
    \cup {Upload(Concat(Word("report"), Chars(<<".", "p", "d", "f">>)), 0, NoneOpens,
                 <<>>, "raises")}

\* the long documents, uploaded under a good name
LongFiles ==
    {Upload(Concat(Word("report"), Chars(<<".", "p", "d", "f">>)), 0, BothOpen, d, "en") :
        d \in LongDocuments}

\* documents whose text, as pdfplumber reads it, has blanks between few
\* letters: long enough once trimmed, with fewer letters than that, while
\* PyPDF2 reads a full line
SparseDocuments ==
    {<<Page(PageText(t), PageText(Rep("b", min_text_length)))>> :
        t \in {Merge(Chars(<<"a", "a", " ", "b", "b", " ", "c", "c", " ", "d", "d">>)),
               Concat(Rep("a", 1), Concat(Rep(" ", min_text_length - 1), Rep("b", 1))),
               Concat(Rep("a", 5), Concat(Rep(" ", 1), Rep("b", 5))),
               Concat(Rep("a", 4), Concat(Rep("\n", 1), Rep("b", 4)))}}

SparseFiles ==
    {Upload(Concat(Word("report"), Chars(<<".", "p", "d", "f">>)), 0, BothOpen, d, "en") :
        d \in SparseDocuments}

\* the texts _clean_text is tried on: words with two, three and four line
\* breaks between them, with blanks among the line breaks, with an
\* artifact between blanks, next to letters and at the two ends, with
\* several blanks, and the page texts
CleanTexts ==
    PageTexts
        \cup {Concat(Rep("a", 2), Concat(Rep("\n", n), Rep("b", 2))) : n \in 1..(3 + Slack)}
        \cup {Merge(Chars(<<"a", " ", "\n", " ", "\n", " ", "\n", " ", "b">>)),
               Merge(Chars(<<"a", " ", "@", " ", "b">>)),
               Merge(Chars(<<"a", "@", "b">>)),
               Merge(Chars(<<"@", "a", "b", "@">>)),
               Merge(Chars(<<"a", "@", "@", "b", ".">>)),
               Concat(Rep("a", 2), Concat(Rep(" ", MaxPad + 1), Rep("b", 2))),
               Rep(" ", MaxPad)}

Form(has_file, file, context, target_language) ==
    [has_file |-> has_file, file |-> file,
     context |-> context, target_language |-> target_language]

NoFile == Upload(<<>>, 0, NoneOpens, <<>>, "raises")

\* the forms posted: without the file field, and with a file and the two
\* form fields left out, set to a known context and language, or set to
\* unknown ones
Forms ==
    {Form(FALSE, NoFile, Absent, Absent)}
        \cup {Form(TRUE, f, cl[1], cl[2]) :
                 f \in Files,
                 cl \in {<<Absent, Absent>>,
                         <<StrVal(Word("malay-traditional")), StrVal(Word("ms"))>>,
                         <<StrVal(Word("klingon-formal")), StrVal(Word("xx"))>>}}

\* the texts analyze_and_summarize is tried on
AnalysisTexts ==
    PageTexts
        \cup {Rep(" ", min_analysis_length + Slack)}
        \cup {Rep("a", n) :
                 n \in (min_analysis_length - Slack)..(min_analysis_length + Slack)}

\* answers to the key points call: bullet lines between other lines, a text
\* without bullets, no text, an exception
PointReplies ==
    {Http(200, StrVal(Merge(Chars(<<"u2022"," ","o","n","e","\n","-"," ","t","w","o","\n",
                                    "*","\n","t","h","r","e","e","\n",
                                    " ","*","*"," ","f","o","u","r">>)))),
     Http(200, StrVal(Merge(Chars(<<"1", ".", " ", "a", "\n", "-", "b", "\n", "-", "c", "\n",
                                    "-", "d", "\n", "-", "e", "\n", "-", "f", "\n",
                                    "-", "g">>)))),
     Http(200, StrVal(Word("adapted"))),
     Http(200, StrVal(<<>>)),
     Raises}

\* answers to the action items call: lines under every kind of marker and
\* under none, more numbered lines than are returned, a marker followed by
\* a digit, a text without markers, no text, an exception
SolutionReplies ==
    {Http(200, StrVal(Merge(Chars(<<"1", ".", " ", "a", "\n", "-", " ", "b", "\n",
                                    "u2022", "c", "\n", "*", " ", "d", "\n",
                                    "e", "\n", "2", ")", "f", "\n", "-">>)))),
     Http(200, StrVal(Merge(Chars(<<"1", "a", "\n", "2", "b", "\n", "3", "c", "\n",
                                    "4", "d", "\n", "5", "e", "\n", "6", "f", "\n",
                                    "7", "g", "\n", "8", "h">>)))),
     Http(200, StrVal(Merge(Chars(<<"-", "5", " ", "m", "g">>)))),
     Http(200, StrVal(Word("adapted"))),
     Http(200, StrVal(<<>>)),
     Raises}

SolutionContexts == {Word("thai-low-literacy"), Word("klingon-formal")}

\* answers to the structured extraction call: items under headers in
\* upper and mixed case, items before the first header, an item that holds
\* a header phrase, a text without headers, no text, an exception
ConceptReplies ==
    {Http(200, StrVal(Merge(Chars(<<"K", "e", "y", " ", "T", "e", "r", "m", "s", "\n",
                                    "-", " ", "a", "\n", "u2022", " ", "b", "\n",
                                    "I", "N", "S", "T", "R", "U", "C", "T", "I", "O", "N", "S",
                                    "\n", "-", " ", "c">>)))),
     Http(200, StrVal(Merge(Chars(<<"-", " ", "a", "\n", "u2022", " ", "b", "\n",
                                    "k", "e", "y", " ", "t", "e", "r", "m", "s", ":", "\n",
                                    "-", " ", "c">>)))),
     Http(200, StrVal(Merge(Chars(<<"K", "E", "Y", " ", "T", "E", "R", "M", "S", "\n",
                                    "-", " ", "x", "\n",
                                    "-", " ", "y", " ",
                                    "i", "n", "s", "t", "r", "u", "c", "t", "i", "o", "n", "s",
                                    "\n", "-", " ", "z">>)))),
     Http(200, StrVal(Merge(Chars(<<"M", "E", "D", "I", "C", "A", "L", " ",
                                    "C", "O", "N", "C", "E", "P", "T", "S", "\n",
                                    "-", "a", "\n", "b">>)))),
     Http(200, StrVal(Word("adapted"))),
     Http(200, StrVal(<<>>)),
     Raises}

ConceptLanguages == {Word("tl"), Word("xx")}

\* the two answers given to one call of analyze_and_summarize
Answers(rep_summary, rep_points) ==
    [kind |-> "answers", status |-> 0, content |-> NonStr,
     summary |-> rep_summary, points |-> rep_points]

\* the context ids and language codes the prompt builder is tried on
PromptContexts ==
    {Word(k) : k \in CULTURAL_CONTEXTS \cup DOMAIN cultural_notes \cup {"general"}}

PromptLanguages == {Word("en"), Word("th"), Word("xx")}

\* how the test calls of the summarizer's three models end
SummarizerTests ==
    {<<"ok", "ok", "ok">>, <<"raises", "ok", "ok">>, <<"raises", "raises", "raises">>}

\* what the process finds at startup: the SEA-Lion key and, when one is
\* configured, the answer to the test request; the Gemini key and, when
\* there is one, whether the SDK raises while it is configured and how the
\* summarizer's test calls end
Environment(k, t, g, x, ts) ==
    [sealion_key |-> k, sealion_test |-> t, gemini_key |-> g,
     gemini_sdk_raises |-> x, summarizer_tests |-> ts]

Environments ==
    {Environment(k, NoReply, g, FALSE, ts) :
        k \in {"unset", "your_sealion_api_key_here"}, g \in BOOLEAN,
        ts \in {<<"ok", "ok", "ok">>}}
    \cup
    {Environment("unset", NoReply, TRUE, FALSE, ts) : ts \in SummarizerTests}
    \cup
    {Environment("set", t, g, x, <<"ok", "ok", "ok">>) :
        t \in {Http(200, StrVal(Word("adapted"))), Http(500, StrVal(Word("error"))), Raises},
        g \in BOOLEAN, x \in BOOLEAN}

-----------------------------------------------------------------------------
(* The state machine *)

NoResult == [kind |-> "none"]

\* the services as constructed at import of app.py
Init ==
    /\ env \in Environments
    /\ available = SEALion_initialize_sealion(env.sealion_key, env.sealion_test)
    /\ model = Gemini_initialize_gemini(env.gemini_key, env.gemini_sdk_raises)
    /\ summarizer = Summarizer_initialize_gemini(env.gemini_key, env.gemini_sdk_raises,
                                                 env.summarizer_tests).model
    /\ pdf_model = PDF_initialize_gemini(env.gemini_key, env.gemini_sdk_raises)
    /\ op = "idle"
    /\ arg = Absent
    /\ reply = NoReply
    /\ result = NoResult
    /\ events = <<>>

ProviderSteps == {"sealion.request", "gemini.generate_content"}

\* a provider was asked in these steps
Asked(steps) == \E i \in 1..Len(steps) : steps[i] \in ProviderSteps

\* variant: a provider call that fails marks SEA-Lion as unavailable for the
\* requests that follow
GenerateAdaptation_FailureClearsFlag ==
    /\ op = "idle"
    /\ \E data \in Bodies, rep \in Replies :
            LET h == generate_adaptation(available, model, data, rep)
            IN /\ op' = "generate_adaptation"
               /\ arg' = data
               /\ reply' = IF Asked(h.steps) THEN rep ELSE NoReply
               /\ result' = h.response
               /\ events' = h.steps
               /\ available' = (available /\ ~(Asked(h.steps) /\ rep.kind = "raise"))
               /\ UNCHANGED <<env, model, summarizer, pdf_model>>

\* one request to POST /api/cultural-adaptation/generate
GenerateAdaptation ==
    /\ op = "idle"
    /\ \E data \in Bodies, rep \in Replies :
            LET h == generate_adaptation(available, model, data, rep)
            IN /\ op' = "generate_adaptation"
               /\ arg' = data
               /\ reply' = IF Asked(h.steps) THEN rep ELSE NoReply
               /\ result' = h.response
               /\ events' = h.steps
               /\ UNCHANGED <<env, available, model, summarizer, pdf_model>>

\* one call of ValidationService.validate_message
ValidateMessage ==
    /\ op = "idle"
    /\ \E message \in Messages :
            /\ op' = "validate_message"
            /\ arg' = message
            /\ reply' = NoReply
            /\ result' = validate_message(message)
            /\ events' = <<>>
            /\ UNCHANGED <<env, available, model, summarizer, pdf_model>>

\* one request to POST /api/extract-pdf
ExtractPdf ==
    /\ op = "idle"
    /\ \E form \in Forms, rep \in Replies :
            LET h == extract_pdf(available, summarizer, form, rep)
            IN /\ op' = "extract_pdf"
               /\ arg' = form
               /\ reply' = IF Asked(h.steps) THEN rep ELSE NoReply
               /\ result' = h.response
               /\ events' = h.steps
               /\ UNCHANGED <<env, available, model, summarizer, pdf_model>>

\* one call of PDFProcessingService.extract_text_from_pdf
ExtractTextFromPdf ==
    /\ op = "idle"
    /\ \E file \in Files \cup LongFiles \cup SparseFiles :
            LET extraction_result == PDF_extract_text_from_pdf(file)
            IN /\ op' = "extract_text_from_pdf"
               /\ arg' = file
               /\ reply' = NoReply
               /\ result' = extraction_result
               /\ events' = extraction_result.steps
               /\ UNCHANGED <<env, available, model, summarizer, pdf_model>>

\* one call of ValidationService.validate_file_upload
ValidateFileUpload ==
    /\ op = "idle"
    /\ \E file \in Files \cup {NoFile} :
            /\ op' = "validate_file_upload"
            /\ arg' = file
            /\ reply' = NoReply
            /\ result' = validate_file_upload(file)
            /\ events' = <<>>
            /\ UNCHANGED <<env, available, model, summarizer, pdf_model>>

\* one call of TextSummarizationService.analyze_and_summarize
AnalyzeAndSummarize ==
    /\ op = "idle"
    /\ \E text \in AnalysisTexts, rep_summary \in Replies, rep_points \in PointReplies :
            LET analysis == analyze_and_summarize(summarizer # "None", text,
                                                  rep_summary, rep_points)
            IN /\ op' = "analyze_and_summarize"
               /\ arg' = StrVal(text)
               /\ reply' = IF Asked(analysis.steps)
                               THEN Answers(rep_summary, rep_points)
                               ELSE NoReply
               /\ result' = analysis
               /\ events' = analysis.steps
               /\ UNCHANGED <<env, available, model, summarizer, pdf_model>>

\* one call of PDFProcessingService._build_gemini_analysis_prompt
BuildGeminiAnalysisPrompt ==
    /\ op = "idle"
    /\ \E cultural_context \in PromptContexts, target_language \in PromptLanguages :
            /\ op' = "build_gemini_analysis_prompt"
            /\ arg' = [cultural_context |-> cultural_context,
                       target_language |-> target_language]
            /\ reply' = NoReply
            /\ result' = PDF_build_gemini_analysis_prompt(cultural_context, target_language)
            /\ events' = <<>>
            /\ UNCHANGED <<env, available, model, summarizer, pdf_model>>

\* one call of PDFProcessingService.generate_cultural_solutions
GenerateCulturalSolutions ==
    /\ op = "idle"
    /\ \E cultural_context \in SolutionContexts, rep \in SolutionReplies :
            LET solutions == PDF_generate_cultural_solutions(pdf_model, cultural_context, rep)
            IN /\ op' = "generate_cultural_solutions"
               /\ arg' = StrVal(cultural_context)
               /\ reply' = IF Asked(solutions.steps) THEN rep ELSE NoReply
               /\ result' = solutions
               /\ events' = solutions.steps
               /\ UNCHANGED <<env, available, model, summarizer, pdf_model>>

\* one call of PDFProcessingService.extract_medical_concepts
ExtractMedicalConcepts ==
    /\ op = "idle"
    /\ \E target_language \in ConceptLanguages, rep \in ConceptReplies :
            LET extracted == PDF_extract_medical_concepts(pdf_model, target_language, rep)
            IN /\ op' = "extract_medical_concepts"
               /\ arg' = StrVal(target_language)
               /\ reply' = IF Asked(extracted.steps) THEN rep ELSE NoReply
               /\ result' = extracted
               /\ events' = extracted.steps
               /\ UNCHANGED <<env, available, model, summarizer, pdf_model>>

\* one request to GET /api/health
HealthCheck ==
    /\ op = "idle"
    /\ op' = "health_check"
    /\ arg' = Absent
    /\ reply' = NoReply
    /\ result' = health_check(available)
    /\ events' = <<>>
    /\ UNCHANGED <<env, available, model, summarizer, pdf_model>>

\* one call of PDFProcessingService._clean_text
CleanText ==
    /\ op = "idle"
    /\ \E text \in CleanTexts :
            /\ op' = "clean_text"
            /\ arg' = StrVal(text)
            /\ reply' = NoReply
            /\ result' = StrVal(PDF_clean_text(text))
            /\ events' = <<>>
            /\ UNCHANGED <<env, available, model, summarizer, pdf_model>>

\* the operation has returned: its values are dropped, the services stay
\* as they are
Return ==
    /\ op # "idle"
    /\ op' = "idle"
    /\ arg' = Absent
    /\ reply' = NoReply
    /\ result' = NoResult
    /\ events' = <<>>
    /\ UNCHANGED <<env, available, model, summarizer, pdf_model>>

Next ==
    \/ GenerateAdaptation
    \/ ValidateMessage
    \/ ExtractPdf
    \/ ExtractTextFromPdf
    \/ ValidateFileUpload
    \/ AnalyzeAndSummarize
    \/ BuildGeminiAnalysisPrompt
    \/ CleanText
    \/ GenerateCulturalSolutions
    \/ ExtractMedicalConcepts
    \/ HealthCheck
    \/ Return

Spec == Init /\ [][Next]_vars

-----------------------------------------------------------------------------
(* Properties *)

IsRequest == op = "generate_adaptation"
IsValidation == op = "validate_message"

StepSet == {events[i] : i \in 1..Len(events)}
SeaSteps == {"sealion.request", "sealion.fallback"}
GeminiSteps == {"gemini.generate_content", "gemini.fallback"}

\* the number of provider calls of the request
Calls == Cardinality({i \in 1..Len(events) : events[i] \in ProviderSteps})

\* the fields of the submitted body, as data.get reads them
SubmittedMessage == Get(arg.message)
SubmittedContext == Get(arg.context)

\* the request carries two strings, both non-empty once trimmed, and the
\* message passes validate_message
PassesValidation ==
    /\ IsRequest
    /\ arg.kind = "object"
    /\ SubmittedMessage.type = "str"
    /\ SubmittedContext.type = "str"
    /\ Strip(SubmittedMessage.str) # <<>>
    /\ Strip(SubmittedContext.str) # <<>>
    /\ validate_message(StrVal(Strip(SubmittedMessage.str))).valid

\* the static template of the service the request was routed to
SelectedTemplate ==
    IF available
        THEN SEALion_fallback_adaptation(result.originalMessage, result.culturalContext)
        ELSE Gemini_fallback_adaptation(result.originalMessage, result.culturalContext)

\* the provider's answer is an error status, an exception, no text, or ""
FailedReply ==
    \/ reply.kind = "raise"
    \/ reply.kind = "http" /\ reply.status # 200
    \/ reply.kind = "http" /\ reply.content.type # "str"
    \/ reply.kind = "http" /\ reply.content.type = "str" /\ reply.content.str = <<>>

\* the provider's answer is a text of whitespace only
BlankReply ==
    /\ reply.kind = "http"
    /\ reply.status = 200
    /\ reply.content.type = "str"
    /\ reply.content.str # <<>>
    /\ Strip(reply.content.str) = <<>>

\* C1: an adaptation uses SEA-Lion whenever its availability flag is true;
\* Gemini is asked only when that flag is false and the Gemini model is set;
\* with neither, the answer is the static template and no provider is asked.
C1_ProviderSelection ==
    (IsRequest /\ result.status = 200) =>
        /\ available => (StepSet \cap GeminiSteps = {} /\ StepSet \cap SeaSteps # {})
        /\ ("gemini.generate_content" \in StepSet) => (~available /\ model)
        /\ (~available /\ ~model) =>
            /\ events = <<"validate_message", "gemini.fallback">>
            /\ result.adaptedMessage =
                 FromTemplates(adaptations, adaptations_default,
                               result.originalMessage, result.culturalContext)

\* both providers are usable and the request was answered by SEA-Lion
C1_Witness ==
    /\ IsRequest
    /\ available /\ model
    /\ events = <<"validate_message", "sealion.request">>
    /\ result.status = 200

\* a string: a sequence of runs, each of a positive length
IsString(s) == \A i \in 1..Len(s) : s[i][2] >= 1

\* C2: whatever the provider does (answer, error status, empty body,
\* exception, content that is no string, provider unavailable), the
\* adaptation returns a string and no exception reaches the caller: a request
\* that passed validation is answered 200 with a string.
C2_AlwaysAString ==
    PassesValidation =>
        /\ result.status = 200
        /\ result.success
        /\ IsString(result.adaptedMessage)
        /\ result.error_details = ""

\* the provider raised, or answered with a content that is no string, and the
\* request was still answered 200
C2_Witness ==
    /\ PassesValidation
    /\ reply.kind = "raise" \/ (reply.kind = "http" /\ reply.content.type = "other")
    /\ result.status = 200
    /\ result.adaptedMessage = SelectedTemplate

\* C3: a provider answer that is empty once trimmed is treated as a failure
\* and replaced by the static template, for either provider, so the adapted
\* text is never empty or blank.
C3_NeverBlank ==
    (IsRequest /\ result.status = 200) =>
        /\ Strip(result.adaptedMessage) # <<>>
        /\ BlankReply => result.adaptedMessage = SelectedTemplate

\* C4: a request issues at most one provider call; when that call fails
\* (error status, empty answer, exception) the static template of the selected
\* provider is returned at once: no second call, no call to the other provider.
C4_AtMostOneCall ==
    IsRequest =>
        /\ Calls <= 1
        /\ ~(StepSet \cap SeaSteps # {} /\ StepSet \cap GeminiSteps # {})
        /\ (Calls = 1 /\ FailedReply) =>
            /\ result.status = 200
            /\ result.adaptedMessage = SelectedTemplate
            /\ events \in {<<"validate_message", "sealion.request", "sealion.fallback">>,
                           <<"validate_message", "gemini.generate_content",
                             "gemini.fallback">>}

\* SEA-Lion answered with an error status while Gemini was usable, and the
\* request ended in SEA-Lion's template
C4_Witness ==
    /\ IsRequest
    /\ available /\ model
    /\ reply.kind = "http" /\ reply.status = 500
    /\ events = <<"validate_message", "sealion.request", "sealion.fallback">>

\* the generic English text around the message
GenericEnglish(message, closing) ==
    Concat(Concat(Word("Important health advice: "), message),
           Concat(Rep("\n", 2), Word(closing)))

KnownContext(c) ==
    InTable(context_templates, c) \/ InTable(sea_context_templates, c)

\* C5: a valid request whose context id is in no provider table is answered
\* 200 with the generic English fallback around the message, and no provider
\* is asked, whichever service the request is routed to.
C5_UnknownContext ==
    (PassesValidation /\ ~KnownContext(Strip(SubmittedContext.str))) =>
        /\ result.status = 200
        /\ result.success
        /\ Calls = 0
        /\ result.adaptedMessage =
             GenericEnglish(Strip(SubmittedMessage.str),
                            IF available
                                THEN "Please consult with your doctor for more information."
                                ELSE "Please consult with your doctor.")

\* an unknown context id was submitted while the Gemini model was set
C5_Witness ==
    /\ PassesValidation
    /\ ~available /\ model
    /\ SubmittedContext.str = Word("klingon-formal")
    /\ result.status = 200

\* the Thai template of the Gemini adapter around the message
ThaiTemplate(message) ==
    Concat(Concat(Word("u0E04u0E33u0E41u0E19u0E30u0E19u0E33u0E2Au0E33u0E04u0E31u0E0Du0E40u0E01u0E35u0E48u0E22u0E27u0E01u0E31u0E1Au0E2Au0E38u0E02u0E20u0E32u0E1E: "),
                  message),
           Concat(Rep("\n", 2),
                  Word("u0E42u0E1Bu0E23u0E14u0E1Bu0E23u0E36u0E01u0E29u0E32u0E41u0E1Eu0E17u0E22u0E4C")))

\* C6: with both providers unavailable the adaptation for "thai-low-literacy"
\* is the hard-coded Thai template with the message put in, a function of the
\* message alone, so equal inputs give equal outputs.
C6_ThaiFallback ==
    (/\ PassesValidation
     /\ ~available /\ ~model
     /\ Strip(SubmittedContext.str) = Word("thai-low-literacy")) =>
        /\ result.status = 200
        /\ result.adaptedMessage = ThaiTemplate(Strip(SubmittedMessage.str))
        /\ Calls = 0

\* the Thai fallback was produced for a message at the upper length limit
C6_Witness ==
    /\ PassesValidation
    /\ ~available /\ ~model
    /\ SubmittedContext.str = Word("thai-low-literacy")
    /\ StrLen(result.originalMessage) = max_message_length
    /\ result.adaptedMessage = ThaiTemplate(result.originalMessage)

InRange(n) == min_message_length <= n /\ n <= max_message_length

\* C7 as stated: every string whose length as passed in lies in 10..5000 and
\* which matches no forbidden pattern is valid.
C7_ValidByRawLength ==
    (/\ IsValidation
     /\ arg.type = "str"
     /\ InRange(StrLen(arg.str))
     /\ ~MatchesForbiddenPattern(arg.str)) => result.valid

\* C7 amended: every string whose length after trimming lies in 10..5000 and
\* which matches no forbidden pattern is valid, and the cleaned message is the
\* trimmed one.
C7_ValidByTrimmedLength ==
    (/\ IsValidation
     /\ arg.type = "str"
     /\ InRange(StrLen(Strip(arg.str)))
     /\ ~AnyPatternFound(Fold(Strip(arg.str)))) =>
        /\ result.valid
        /\ result.message = "Message is valid"
        /\ result.cleaned_message = Strip(arg.str)

\* a message of exactly 10 characters once trimmed, passed in with
\* whitespace around it, was found valid
C7_Witness ==
    /\ IsValidation
    /\ arg.type = "str"
    /\ StrLen(Strip(arg.str)) = min_message_length
    /\ StrLen(arg.str) > min_message_length
    /\ result.valid

\* C8 as stated: every string whose length as passed in is under 10 or over
\* 5000 is invalid, with a message about its length (the refusal of the empty
\* string counted as one).
C8_InvalidByRawLength ==
    (/\ IsValidation
     /\ arg.type = "str"
     /\ ~InRange(StrLen(arg.str))) =>
        /\ ~result.valid
        /\ result.message \in
             {"Message must be a non-empty string",
              "Message must be at least 10 characters long",
              "Message must not exceed 5000 characters"}

\* C8 amended: every string whose length after trimming is under 10 or over
\* 5000 is invalid; the message names the limit broken, except that the empty
\* string is told to be a non-empty string.
C8_InvalidByTrimmedLength ==
    (IsValidation /\ arg.type = "str") =>
        /\ StrLen(Strip(arg.str)) < min_message_length =>
            /\ ~result.valid
            /\ result.message =
                 IF arg.str = <<>>
                     THEN "Message must be a non-empty string"
                     ELSE "Message must be at least 10 characters long"
        /\ StrLen(Strip(arg.str)) > max_message_length =>
            /\ ~result.valid
            /\ result.message = "Message must not exceed 5000 characters"

\* a message over the upper limit once trimmed was refused for its length
C8_Witness ==
    /\ IsValidation
    /\ arg.type = "str"
    /\ StrLen(Strip(arg.str)) = max_message_length + 1
    /\ ~result.valid
    /\ result.message = "Message must not exceed 5000 characters"

C10_ValidationFirst ==
    IsRequest =>
        LET missing == arg.kind \in {"none", "empty"}
            m == SubmittedMessage
            c == SubmittedContext
            m_empty == m.type = "str" /\ Strip(m.str) = <<>>
            c_empty == c.type = "str" /\ Strip(c.str) = <<>>
            rejected ==
                ~validate_message(IF m.type = "str" THEN StrVal(Strip(m.str)) ELSE m).valid
        IN IF missing \/ m_empty \/ c_empty \/ rejected
               THEN /\ result.status = 400
                    /\ ~result.success
                    /\ StepSet \subseteq {"validate_message"}
               ELSE /\ result.status = 200
                    /\ result.originalMessage = Strip(m.str)
                    /\ result.culturalContext = c.str

-----------------------------------------------------------------------------
(* Properties of the error paths, the file path and the startup flags *)

IsExtractPdf == op = "extract_pdf"
IsExtraction == op = "extract_text_from_pdf"
IsAnalysis == op = "analyze_and_summarize"
IsPrompt == op = "build_gemini_analysis_prompt"

\* C11: every invalid input to the adaptation endpoint is answered with
\* 400: a request whose message or context field is present but is no
\* string gets a 400 response, never a 500.
C11_NonStringFieldIs400 ==
    (/\ IsRequest
     /\ arg.kind = "object"
     /\ (SubmittedMessage.type = "other" \/ SubmittedContext.type = "other"))
        => result.status = 400

\* C12: on the 500 path the response body does not depend on the exception:
\* it is the one generic body with the message "Internal server error", and
\* the text of the exception is in none of its fields.
C12_GenericBodyOn500 ==
    (IsRequest /\ result.status = 500) =>
        /\ result.error_message = "Internal server error"
        /\ result.error_details = ""

\* C13: on POST /api/extract-pdf the file passes validate_file_upload before
\* the extractor runs: a file whose name does not end in .pdf, or whose
\* declared size is over 10 MB, is answered with 400 and no extraction
\* method is run on it.
C13_ValidatorBeforeExtractor ==
    (IsExtractPdf /\ arg.has_file /\ ~validate_file_upload(arg.file).valid) =>
        /\ result.status = 400
        /\ StepSet \cap {"pdfplumber", "pypdf2"} = {}

\* the request carries a file that extract_text_from_pdf gets a text from
ExtractionSucceeded ==
    IsExtractPdf /\ arg.has_file /\ PDF_extract_text_from_pdf(arg.file).success

\* C14: on POST /api/extract-pdf the response is 200 once extraction has
\* succeeded, whatever the provider did (unavailable, error status, empty
\* output, exception); it is 400 exactly when the file field is missing or
\* extraction failed; and no provider error reaches the client.
C14_ProviderFailuresAbsorbed ==
    IsExtractPdf =>
        /\ ExtractionSucceeded => (result.status = 200 /\ result.success)
        /\ ~ExtractionSucceeded => (result.status = 400 /\ ~result.success)
        /\ result.status = 200 =>
            /\ result.error_message = ""
            /\ result.error_details = ""
            /\ result.summary # Word("error")

C14_Witness ==
    /\ ExtractionSucceeded
    /\ "sealion.request" \in StepSet
    /\ reply \in {Raises, Http(500, StrVal(Word("error"))), Http(200, NonStr)}
    /\ result.status = 200

\* C15: when both extraction methods yield under 10 characters,
\* extract_text_from_pdf returns success=false with the error "Could not
\* extract text from PDF" and an empty text, after one attempt of method A
\* followed by one attempt of method B and no other attempt.
C15_BothMethodsFail ==
    (/\ IsExtraction
     /\ StrLen(PDF_extract_with_pdfplumber(arg).text) < 10
     /\ StrLen(PDF_extract_with_pypdf2(arg).text) < 10) =>
        /\ ~result.success
        /\ result.error = "Could not extract text from PDF"
        /\ result.text = <<>>
        /\ events = <<"pdfplumber", "pypdf2">>

C15_Witness ==
    /\ IsExtraction
    /\ PDF_extract_with_pdfplumber(arg).text = Rep("a", 9)
    /\ PDF_extract_with_pypdf2(arg).text = Rep("b", 9)
    /\ ~result.success
    /\ events = <<"pdfplumber", "pypdf2">>

\* C16: analyze_and_summarize on a text shorter than 10 characters returns
\* success=false with an empty summary and an empty list of key points,
\* and makes no provider call.
C16_ShortTextRejected ==
    (IsAnalysis /\ StrLen(arg.str) < 10) =>
        /\ ~result.success
        /\ result.summary = <<>>
        /\ result.key_points = <<>>
        /\ events = <<>>

C16_Witness ==
    /\ IsAnalysis
    /\ arg.str = Rep("a", 9)
    /\ summarizer # "None"
    /\ ~result.success
    /\ events = <<>>

\* C17: on the file path with both providers disabled, for every text that
\* was extracted the summary of the response is the fallback summary of
\* that text (its first three sentences, cut with an ellipsis past the
\* cap), wordCount is the number of its whitespace-separated words, and
\* culturalContext is the context submitted.
C17_FallbackRoundTrip ==
    (ExtractionSucceeded /\ ~available /\ summarizer = "None") =>
        LET extracted_text == PDF_extract_text_from_pdf(arg.file).text
        IN /\ result.status = 200
           /\ result.summary = Summarizer_fallback_summary(extracted_text)
           /\ result.wordCount = WordCount(extracted_text)
           /\ arg.context.type = "str" => result.culturalContext = arg.context.str

\* C18: the availability of a provider is fixed at startup: no request,
\* whatever its provider calls do, changes an availability flag.
C18_AvailabilityFixed ==
    [][/\ available' = available
       /\ model' = model
       /\ summarizer' = summarizer
       /\ pdf_model' = pdf_model]_vars

C18_Witness ==
    /\ IsRequest
    /\ "sealion.request" \in StepSet
    /\ reply = Raises
    /\ available

\* the test call of the SEA-Lion client was made and did not succeed
SeaTestFailed ==
    /\ env.sealion_key = "set"
    /\ ~(env.sealion_test.kind = "http" /\ env.sealion_test.status = 200)

\* the summarizer tried its models and the test call failed for each
SummarizerTestsFailed ==
    /\ env.gemini_key
    /\ ~env.gemini_sdk_raises
    /\ \A i \in 1..Len(env.summarizer_tests) : env.summarizer_tests[i] = "raises"

\* C19: a provider whose client makes a test call at startup (the SEA-Lion
\* client, the Gemini summarizer) is available only if the test call
\* succeeded: when it failed the provider is unavailable, and no request
\* calls it.
C19_AvailableOnlyAfterTest ==
    /\ SeaTestFailed =>
        (~available /\ "sealion.request" \notin StepSet)
    /\ SummarizerTestsFailed =>
        /\ summarizer = "None"
        /\ (IsExtractPdf \/ IsAnalysis) => "gemini.generate_content" \notin StepSet

\* C20: every context id that is a key of a lookup table of the adapter or
\* the summarizer is an id of CULTURAL_CONTEXTS, and an id that is in no
\* table gets the defined default.
C20_TableKeysInCatalog ==
    /\ \A k \in DOMAIN sea_context_templates \cup DOMAIN sea_fallback_adaptations
                \cup DOMAIN context_templates \cup DOMAIN adaptations :
            k \in CULTURAL_CONTEXTS
    /\ IsPrompt =>
        /\ result.found => arg.cultural_context \in {Word(k) : k \in CULTURAL_CONTEXTS}
        /\ ~result.found => result.cultural_note = cultural_notes_default

-----------------------------------------------------------------------------
(* Properties of extraction, cleaning and parsing *)

\* the file with the pages after the first ten taken away
FirstTenPages(file) ==
    [file EXCEPT !.pages = First(file.pages, max_pages)]

\* the page indexes in a list of pages read
PagesRead(read) == {read[i] : i \in 1..Len(read)}

\* C21: in both extraction methods, whatever pages raise an error, no page
\* after the first 10 is processed, and the extracted text has nothing of a
\* page with an index of 10 or more: it is the text of the first ten pages.
C21_PageLimit ==
    IsExtraction =>
        /\ PagesRead(result.read.plumber) \subseteq 0..(max_pages - 1)
        /\ PagesRead(result.read.pypdf2) \subseteq 0..(max_pages - 1)
        /\ result.text = PDF_extract_text_from_pdf(FirstTenPages(arg)).text

RECURSIVE NonSpaceLen(_)
\* the number of characters of s that are not whitespace
NonSpaceLen(s) ==
    IF s = <<>> THEN 0
    ELSE (IF IsSpace(Head(s)) THEN 0 ELSE Head(s)[2]) + NonSpaceLen(Tail(s))

\* C22: method B is attempted exactly when the output of method A has
\* fewer than 10 characters that are not whitespace: always then, and never
\* when A yielded 10 such characters or more.
C22_MethodBExactlyWhenSparse ==
    IsExtraction =>
        (("pypdf2" \in StepSet)
            <=> (NonSpaceLen(PDF_extract_with_pdfplumber(arg).text) < min_text_length))

IsClean == op = "clean_text"

\* the text has three line breaks or more in a row between two words
HasParagraphBreak(s) ==
    \E i \in 2..(Len(s) - 1) :
        /\ s[i][1] = "\n"
        /\ s[i][2] >= 3
        /\ IsWord(s[i - 1])
        /\ IsWord(s[i + 1])

\* C23: _clean_text collapses every run of 3 or more line breaks to exactly
\* 2 line breaks: the cleaned text has no longer run, and a paragraph break
\* of the text is a double line break in the cleaned text.
C23_ParagraphBreaksKept ==
    IsClean =>
        /\ \A i \in 1..Len(result.str) :
                result.str[i][1] = "\n" => result.str[i][2] <= 2
        /\ HasParagraphBreak(arg.str) =>
                \E i \in 1..Len(result.str) : result.str[i] = <<"\n", 2>>

\* C30: _clean_text is idempotent and normalizes fully: cleaning a cleaned
\* text changes nothing, and a cleaned text has no two whitespace
\* characters next to each other.
C30_CleanTextIdempotent ==
    IsClean =>
        /\ PDF_clean_text(result.str) = result.str
        /\ \A i \in 1..Len(result.str) :
                IsSpace(result.str[i]) =>
                    /\ result.str[i][2] = 1
                    /\ i < Len(result.str) => ~IsSpace(result.str[i + 1])

IsSolutions == op = "generate_cultural_solutions"
IsConcepts == op = "extract_medical_concepts"

\* the lines of a provider's answer
AnswerLines(rep) == Split(Strip(rep.content.str), "\n")

RECURSIVE LStripMarkers(_)
\* the line without the markers, digits and full stops it starts with
LStripMarkers(s) ==
    IF s = <<>> THEN <<>>
    ELSE IF Head(s)[1] \in bullets \cup Digits \cup {"."}
        THEN LStripMarkers(Tail(s))
        ELSE s

RECURSIVE MarkedLines(_)
\* of the lines that start with a bullet marker or with a digit, what
\* comes after the marker, when there is something
MarkedLines(lines) ==
    IF lines = <<>> THEN <<>>
    ELSE LET line == Strip(Head(lines))
             item == Strip(LStripMarkers(line))
         IN IF /\ line # <<>>
               /\ Head(line)[1] \in bullets \cup Digits
               /\ item # <<>>
                THEN <<item>> \o MarkedLines(Tail(lines))
                ELSE MarkedLines(Tail(lines))

\* the provider's answer was parsed into the list returned
ParsedAnswer(rep) == HasText(rep) /\ rep.content.str # <<>>

\* C24: parsing provider output into key points and into action items keeps
\* a line exactly when it starts with a bullet marker (u2022, -, *) or with
\* a digit and something is left once the marker is taken off; the list
\* returned is the first 5 of these for key points, the first 7 for action
\* items.
C24_MarkedLinesKept ==
    /\ (IsSolutions /\ pdf_model /\ ParsedAnswer(reply)) =>
            result.points = First(MarkedLines(AnswerLines(reply)), 7)
    /\ (IsAnalysis /\ result.success /\ summarizer # "None"
            /\ ParsedAnswer(reply.points)) =>
            result.key_points = First(MarkedLines(AnswerLines(reply.points)), 5)

RECURSIVE GroupedLines(_, _, _)
\* the bulleted lines put under the header seen last, those before the
\* first header left out
GroupedLines(lines, current_section, grouped) ==
    IF lines = <<>> THEN grouped
    ELSE LET line == Strip(Head(lines))
             clean_item == Strip(LStripItem(line))
         IN IF line # <<>> /\ Head(line)[1] \in {"-", "u2022"}
                THEN GroupedLines(Tail(lines), current_section,
                                  IF current_section # "None" /\ clean_item # <<>>
                                      THEN [grouped EXCEPT ![current_section] =
                                                               Append(@, clean_item)]
                                      ELSE grouped)
            ELSE IF HeaderOf(line) # 0
                THEN GroupedLines(Tail(lines), section_headers[HeaderOf(line)].section,
                                  grouped)
            ELSE GroupedLines(Tail(lines), current_section, grouped)

\* C25: in structured extraction every bulleted line after a recognized
\* section header goes to the list of the header seen last (headers are
\* matched whatever their case), and every bulleted line before the first
\* header is discarded.
C25_ItemsUnderLastHeader ==
    (IsConcepts /\ pdf_model /\ ParsedAnswer(reply)) =>
        result.concepts = GroupedLines(Split(reply.content.str, "\n"), "None", NoSections)

\* the text has a character that ends a sentence
HasSentenceEnd(s) == \E i \in 1..Len(s) : s[i][1] \in SentenceEnds

\* the summary was made by a fallback of one of the two providers
OnSummaryFallback == StepSet \cap {"sealion.fallback", "gemini.fallback"} # {}

\* C26: on every fallback path of the summary, on the SEA-Lion and on the
\* Gemini route, the summary is the first 3 spans of the text that end at
\* ".", "!" or "?", put together and cut to 300 characters and an ellipsis
\* when longer.
C26_FirstThreeSentences ==
    (ExtractionSucceeded /\ result.status = 200 /\ OnSummaryFallback) =>
        LET extracted_text == PDF_extract_text_from_pdf(arg.file).text
        IN HasSentenceEnd(extracted_text) =>
               result.summary = Summarizer_fallback_summary(extracted_text)

\* C27: whenever extract_text_from_pdf returns success=true the cleaned
\* text it returns has at least 10 characters, so that on the file path the
\* summarizer never rejects the text as too short and a 200 response never
\* has an empty summary.
C27_ExtractedTextLongEnough ==
    /\ (IsExtraction /\ result.success) =>
            StrLen(result.text) >= min_text_length
    /\ ExtractionSucceeded =>
            /\ StrLen(PDF_extract_text_from_pdf(arg.file).text) >= min_analysis_length
            /\ result.status = 200 => result.summary # <<>>

\* C28: the static fallback adaptation is the same on both provider paths:
\* for every message and context id, the fallback template of the SEA-Lion
\* client gives the text that the fallback template of the Gemini adapter
\* gives.
C28_SameFallbackTemplate ==
    (IsRequest /\ result.status = 200) =>
        SEALion_fallback_adaptation(result.originalMessage, result.culturalContext)
            = Gemini_fallback_adaptation(result.originalMessage, result.culturalContext)

IsHealth == op = "health_check"

\* C29: GET /api/health reports the providers as they are: gemini_available
\* is true exactly when the Gemini adapter holds a model (when an adaptation
\* request would call Gemini), and primary_service is the provider an
\* adaptation request would use.
C29_HealthTruthful ==
    IsHealth =>
        /\ result.sealion_available = available
        /\ result.gemini_available = model
        /\ result.primary_service = (IF available THEN "SEA-Lion" ELSE "Gemini")

====
